---------------------------- MODULE Spec2Model ----------------------------
(***************************************************************************)
(* Model of src/src/jlinkcontroller.py (class JLinkController) and of the  *)
(* command line scripts that drive it.                                     *)
(*                                                                         *)
(* The pylink SDK handle (self.jlink) is the environment. Its state is the *)
(* three liveness answers opened(), connected(), target_connected() plus   *)
(* the identity of the probe that is open and of the target that is        *)
(* connected. Every SDK call is an input of the action that issues it: it  *)
(* either raises or returns, and the action follows the code's path for    *)
(* that outcome. An exception that no try block of the controller catches  *)
(* leaves the operation with the result "raise".                           *)
(***************************************************************************)
EXTENDS Integers, Sequences, FiniteSets, TLC

VARIABLES
    sdk_opened,      \* self.jlink.opened()
    sdk_connected,   \* self.jlink.connected()
    sdk_target,      \* self.jlink.target_connected()
    sdk_device,      \* name of the device the handle is connected to
    detected_jlinks,                \* self.detected_jlinks
    connected_jlink,                \* self.connected_jlink
    connected_mcu,                  \* self.connected_mcu
    connected_jlink_serial_number,  \* self.connected_jlink_serial_number
    rtt_read_line,                  \* self.rtt_read_line
    last_percentage,                \* self.last_percentage
    file_handlers,   \* logging.FileHandler objects attached to the logger
    readback_faults, \* attribute reads of the SDK that have raised so far
    fed,             \* bytes the SDK handed to rtt_read since rtt_start
    emitted,         \* lines rtt_read has logged since rtt_start
    line_breaks,     \* reads that failed while the accumulator held a line
    pc,              \* jlink_rtt.py: where main() is
    app_exit,        \* jlink_rtt.py: the global app_exit
    late_reads,      \* jlink_rtt.py: rtt_read calls since app_exit was set
    disconnects,     \* the scripts: disconnect() calls of main()
    connects,        \* the scripts: connect() calls of main() that succeeded
    probe_index,     \* jlink_info.py: probes the for loop of main() is past
    last             \* the last operation: name, state before, result, calls

vars == <<sdk_opened, sdk_connected, sdk_target, sdk_device,
          detected_jlinks, connected_jlink, connected_mcu,
          connected_jlink_serial_number, rtt_read_line, last_percentage,
          file_handlers, readback_faults, fed, emitted, line_breaks,
          pc, app_exit, late_reads, disconnects, connects, probe_index,
          last>>

sdk_vars == <<sdk_opened, sdk_connected, sdk_target, sdk_device>>

rtt_vars == <<rtt_read_line, file_handlers, fed, emitted, line_breaks>>

main_vars == <<pc, app_exit, late_reads, disconnects, connects, probe_index>>

-----------------------------------------------------------------------------
(* Bounds of the model.                                                    *)

\* Attribute reads of the SDK that may raise in one behaviour.
MaxReadbackFaults == 1

\* Entries of one SDK enumeration result.
MaxEnum == 3

\* Bytes of a firmware file, of a memory read and of a dump request.
MaxFwLen == 2

\* Progress reports the SDK delivers during one flash_file.
MaxProgress == 1

\* Calls of fw_flash_on_progress by one flash_file.
MaxReports == 6

\* Characters of an interface argument that is no casing of a name.
MaxInterfaceLen == 3

\* Log file handlers rtt_start may attach in one behaviour.
MaxHandlers == 1

\* Bytes fed to rtt_read after one rtt_start.
MaxFed == 4

-----------------------------------------------------------------------------
(* Values.                                                                 *)

None == "None"

Serials == {1, 2}

Targets == {"T1", "T2"}

LF == 10

CR == 13


-----------------------------------------------------------------------------
(* What the SDK reports for each probe and each device. A Python string is *)
(* a sequence: the empty string is <<>>, a product name is the sequence of *)
(* its pieces, every other value v is <<v>>.                               *)

SdkProductName(s) ==
    IF s = 1 THEN <<"J-Link", " compiled", " Jan 1 2022">> ELSE <<"J-Trace">>

SdkOem(s) == IF s = 2 THEN "SEGGER" ELSE None

\* Probe 2 reports -1: the controller falls back to the serial it opened.
SdkSerialNumber(s) == IF s = 2 THEN -1 ELSE s

SdkHardwareVersion(s) == <<"hw", s>>

SdkFirmwareVersion(s) == <<"fw", s>>

SdkFlashSize(t) == IF t = "T1" THEN 1 ELSE 2

SdkEndianMode(t) == IF t = "T1" THEN 0 ELSE 1

-----------------------------------------------------------------------------
(* ConnectedJlink and ConnectedMCU.                                        *)

ConnectedJlink ==
    [product_name |-> <<>>, serial_number |-> <<>>,
     hw_version |-> <<>>, fw_version |-> <<>>]

ConnectedMCU ==
    [core |-> <<>>, core_id |-> <<>>, device_family |-> <<>>,
     manufacturer |-> <<>>, cpu_id |-> <<>>, name |-> <<>>,
     flash_size |-> <<>>, ram_size |-> <<>>, endianess |-> <<>>,
     frequency |-> <<>>, base_frequency |-> <<>>, voltage |-> <<>>]

\* The fields of connected_mcu in the order connect_to_mcu assigns them.
McuFieldOrder ==
    <<"core", "device_family", "cpu_id", "core_id", "frequency",
      "base_frequency", "manufacturer", "name", "voltage", "flash_size",
      "ram_size", "endianess">>

\* The value connect_to_mcu stores in field f when connected to device t.
McuFieldValue(t, f) ==
    CASE f = "flash_size" -> <<SdkFlashSize(t)>>
      [] f = "endianess"  -> IF SdkEndianMode(t) # 0 THEN <<"Big Endian">>
                                                    ELSE <<"Little Endian">>
      [] OTHER            -> <<t>>

\* connected_mcu after the first k reads of connect_to_mcu have returned.
McuAfter(mcu, t, k) ==
    [f \in DOMAIN mcu |->
        IF \E i \in 1..k : McuFieldOrder[i] = f THEN McuFieldValue(t, f)
                                                ELSE mcu[f]]

\* pn.find(" compiled"): the 0-based index of the piece, -1 when absent.
FindCompiled(pn) ==
    IF \E i \in 1..Len(pn) : pn[i] = " compiled"
    THEN (CHOOSE i \in 1..Len(pn) :
            /\ pn[i] = " compiled"
            /\ \A j \in 1..(i - 1) : pn[j] # " compiled") - 1
    ELSE -1

\* The product name connect() stores before it looks at the OEM tag.
StripCompiled(pn) ==
    IF FindCompiled(pn) # -1 THEN SubSeq(pn, 1, FindCompiled(pn)) ELSE pn

\* "{} {}".format(oem, pn)
OemName(oem, pn) == <<oem, " ">> \o pn

\* What the two accesses of the oem attribute in connect() can return, the
\* first at the test "is not None" and the second at the assignment: each
\* access asks the SDK again and gets the tag of the probe or None. When the
\* first returns None there is no second.
OemReads(s) ==
    {<<SdkOem(s), SdkOem(s)>>, <<SdkOem(s), None>>, <<None, None>>}

\* connected_jlink after the first k SDK attributes and calls of connect()
\* have returned: 1 product_name, 2 oem (accessed twice, oem[1] then
\* oem[2]), 3 serial_number, 4 hardware_version, 5 firmware_version
\* (6 disable_dialog_boxes and 7 exec_command store nothing). The name is
\* formatted with what the second access returned.
JlinkAfter(cj, s, given, k, oem) ==
    [product_name |->
        IF k >= 2 /\ oem[1] # None
            THEN OemName(oem[2], StripCompiled(SdkProductName(s)))
        ELSE IF k >= 1 THEN StripCompiled(SdkProductName(s))
        ELSE cj.product_name,
     serial_number |->
        IF k >= 3
            THEN (IF SdkSerialNumber(s) = -1 THEN <<given>>
                                             ELSE <<SdkSerialNumber(s)>>)
            ELSE cj.serial_number,
     hw_version |-> IF k >= 4 THEN SdkHardwareVersion(s) ELSE cj.hw_version,
     fw_version |-> IF k >= 5 THEN SdkFirmwareVersion(s) ELSE cj.fw_version]

\* SDK attributes and calls connect() asks for after the liveness check;
\* oem counts once.
ConnectReads == 7

\* SDK reads connect_to_mcu makes after the liveness check.
McuReads == 12

-----------------------------------------------------------------------------
(* Liveness queries: each asks the SDK handle, nothing is cached.          *)

is_connected == sdk_opened /\ sdk_connected

\* is_mcu_connected answered from the snapshot connect_to_mcu took.
is_mcu_connected_Cached == connected_mcu # ConnectedMCU

is_mcu_connected == sdk_target

is_jlink_mcu_connected == is_connected /\ is_mcu_connected

\* The state of the connection state machine the queries present.
State ==
    IF is_jlink_mcu_connected THEN "TargetConnected"
    ELSE IF is_connected THEN "ProbeConnected"
    ELSE "Disconnected"

\* The record of an operation: its name, the state it started in, its
\* result ("ok" for True, "fail" for False, "raise" for an exception that
\* left the controller), the SDK and file calls it issued, and its data.
Op(name, res, calls, data) ==
    [op |-> name, pre |-> State, res |-> res, calls |-> calls, data |-> data]

-----------------------------------------------------------------------------
\* The controller after construction, in a script that is at position
\* start of its main().
InitAt(start) ==
    /\ sdk_opened = FALSE
    /\ sdk_connected = FALSE
    /\ sdk_target = FALSE
    /\ sdk_device = None
    /\ detected_jlinks = <<>>
    /\ connected_jlink = ConnectedJlink
    /\ connected_mcu = ConnectedMCU
    /\ connected_jlink_serial_number = <<>>
    /\ rtt_read_line = <<>>
    /\ last_percentage = 0
    /\ file_handlers = 0
    /\ readback_faults = 0
    /\ fed = <<>>
    /\ emitted = <<>>
    /\ line_breaks = {}
    /\ pc = start
    /\ app_exit = FALSE
    /\ late_reads = 0
    /\ disconnects = 0
    /\ connects = 0
    /\ probe_index = 0
    /\ last = [op |-> "init", pre |-> "Disconnected", res |-> "ok",
               calls |-> <<>>, data |-> <<>>]

Init == InitAt("discover")

-----------------------------------------------------------------------------
(* jlink_interface_from_string. An interface string is the sequence of its *)
(* character codes, so that lower() is computed character by character.    *)

\* The interface argument None (no --interface option): not a string.
NoInterface == <<-1>>

\* str.lower() of one character below U+0100: "A" to "Z" and the capital
\* letters of Latin-1 (U+00C0 to U+00DE but the multiplication sign).
LowerChar(c) ==
    IF \/ c >= 65 /\ c <= 90
       \/ c >= 192 /\ c <= 222 /\ c # 215
    THEN c + 32 ELSE c

\* Lower that leaves the string as it is.
Lower_AsGiven(str) == str

Lower(str) == [i \in 1..Len(str) |-> LowerChar(str[i])]

jlink_interface_from_string(interface) ==
    LET given == IF interface = NoInterface THEN <<>> ELSE interface
        low   == Lower(given)
    IN  CASE low = <<115, 119, 100>>      -> [tif |-> "SWD",  warned |-> FALSE]
          [] low = <<106, 116, 97, 103>>  -> [tif |-> "JTAG", warned |-> FALSE]
          [] low = <<105, 99, 115, 112>>  -> [tif |-> "ICSP", warned |-> FALSE]
          [] low = <<115, 112, 105>>      -> [tif |-> "SPI",  warned |-> FALSE]
          [] low = <<102, 105, 110, 101>> -> [tif |-> "FINE", warned |-> FALSE]
          [] low = <<99, 50>>             -> [tif |-> "C2",   warned |-> FALSE]
          [] OTHER                        -> [tif |-> "SWD",  warned |-> TRUE]

\* Interface arguments of the scripts: absent, "", "SWD", "Jtag", "usb".
InterfaceArgs ==
    {NoInterface, <<>>, <<83, 87, 68>>, <<74, 116, 97, 103>>,
     <<117, 115, 98>>}

\* The probe, the target and the interface argument of the specifications
\* with one probe and one target.
TheSerial == {1}

TheTarget == {"T1"}

TheInterface == {NoInterface}

-----------------------------------------------------------------------------
(* The SDK handle.                                                         *)

\* close(), and an open() that raised: nothing is open any more.
SdkClosed ==
    /\ sdk_opened' = FALSE
    /\ sdk_connected' = FALSE
    /\ sdk_target' = FALSE
    /\ sdk_device' = None

\* open(serial_no=s) returned: o and c are what opened() and connected()
\* answer from now on.
SdkOpened(s, o, c) ==
    /\ sdk_opened' = o
    /\ sdk_connected' = c
    /\ sdk_target' = FALSE
    /\ sdk_device' = None

\* The answers opened() and connected() can give after open() returned.
OpenAnswers == {<<TRUE, TRUE>>, <<TRUE, FALSE>>, <<FALSE, FALSE>>}

\* connect(t) returned, or raised and dropped the target: c is what
\* target_connected() answers from now on.
SdkTarget(t, c) ==
    /\ sdk_target' = c
    /\ sdk_device' = IF c THEN t ELSE None
    /\ UNCHANGED <<sdk_opened, sdk_connected>>

\* The probe is unplugged or loses power while the handle is open.
SdkUnplug ==
    /\ sdk_connected
    /\ sdk_connected' = FALSE
    /\ sdk_target' = FALSE
    /\ sdk_device' = None
    /\ UNCHANGED sdk_opened
    /\ UNCHANGED <<detected_jlinks, connected_jlink, connected_mcu,
                   connected_jlink_serial_number, last_percentage,
                   readback_faults, last>>
    /\ UNCHANGED rtt_vars
    /\ UNCHANGED main_vars

\* The target is reset or loses power while connected.
SdkTargetLost ==
    /\ sdk_target
    /\ sdk_target' = FALSE
    /\ sdk_device' = None
    /\ UNCHANGED <<sdk_opened, sdk_connected>>
    /\ UNCHANGED <<detected_jlinks, connected_jlink, connected_mcu,
                   connected_jlink_serial_number, last_percentage,
                   readback_faults, last>>
    /\ UNCHANGED rtt_vars
    /\ UNCHANGED main_vars

-----------------------------------------------------------------------------
(* connect(jlink_serial_number)                                            *)

\* self.jlink.open raised: logged, return False.
ConnectOpenRaises(s, given) ==
    /\ SdkClosed
    /\ last' = Op("connect", "fail", <<"open">>,
                  [serial |-> given, read |-> 0])
    /\ UNCHANGED <<connected_jlink, connected_jlink_serial_number,
                   readback_faults>>

\* open returned but is_connected() is false: return False.
ConnectNotLive(s, given) ==
    \E a \in OpenAnswers :
        /\ ~(a[1] /\ a[2])
        /\ SdkOpened(s, a[1], a[2])
        /\ connected_jlink_serial_number' = <<given>>
        /\ last' = Op("connect", "fail", <<"open">>,
                      [serial |-> given, read |-> 0])
        /\ UNCHANGED <<connected_jlink, readback_faults>>

\* The probe is live and SDK read k raises: nothing catches it.
ConnectReadRaises(s, given) ==
    \E k \in 1..ConnectReads, oem \in OemReads(s) :
        /\ readback_faults < MaxReadbackFaults
        /\ readback_faults' = readback_faults + 1
        /\ SdkOpened(s, TRUE, TRUE)
        /\ connected_jlink_serial_number' = <<given>>
        /\ connected_jlink' =
               JlinkAfter(connected_jlink, s, given, k - 1, oem)
        /\ last' = Op("connect", "raise", <<"open">>,
                      [serial |-> given, read |-> k])

\* The probe is live and every read returns: return True.
ConnectOk(s, given) ==
    /\ SdkOpened(s, TRUE, TRUE)
    /\ connected_jlink_serial_number' = <<given>>
    /\ \E oem \in OemReads(s) :
          connected_jlink' =
              JlinkAfter(connected_jlink, s, given, ConnectReads, oem)
    /\ last' = Op("connect", "ok", <<"open">>,
                  [serial |-> given, read |-> ConnectReads])
    /\ UNCHANGED readback_faults

ConnectFrame ==
    /\ UNCHANGED <<detected_jlinks, connected_mcu, last_percentage>>
    /\ UNCHANGED rtt_vars

\* connect() on one of the arguments A, every path but a raising read. An
\* argument is <<s, given>>: the probe the SDK opens when open() returns,
\* and what the caller passed to connect().
ConnectAs(A) ==
    /\ \E a \in A :
          \/ ConnectOpenRaises(a[1], a[2])
          \/ ConnectNotLive(a[1], a[2])
          \/ ConnectOk(a[1], a[2])
    /\ ConnectFrame

\* connect() on one of the arguments A, a read after the liveness check
\* raises. The SDK handle ends as on the successful path of ConnectAs.
ConnectReadFaultAs(A) ==
    /\ \E a \in A : ConnectReadRaises(a[1], a[2])
    /\ ConnectFrame

\* connect() on one of the serial numbers S.
Connect(S) == ConnectAs({<<s, s>> : s \in S})

ConnectReadFault(S) == ConnectReadFaultAs({<<s, s>> : s \in S})

-----------------------------------------------------------------------------
(* connect_to_mcu(mcu_target, interface)                                   *)

\* What is recorded of one connect_to_mcu: the device, the reads that
\* returned, and whether it retries a connect_to_mcu that has just failed
\* on a connected probe.
McuData(t, k) ==
    [target |-> t, read |-> k,
     retry  |-> /\ last.op = "connect_to_mcu"
                /\ last.res = "fail"
                /\ last.pre = "ProbeConnected"]

\* McuNotLive that closes the probe on its way out.
McuNotLive_Closes(t, r) ==
    /\ sdk_opened /\ sdk_connected
    /\ SdkClosed
    /\ last' = Op("connect_to_mcu", "fail", <<"set_tif", "connect">>,
                  McuData(t, 0))
    /\ UNCHANGED <<connected_mcu, readback_faults>>

\* self.jlink.set_tif raised, outside any try block. A handle that is not
\* open always raises; an open one raises for an interface the probe does
\* not support.
McuSetTifRaises(t, r) ==
    /\ last' = Op("connect_to_mcu", "raise", <<"set_tif">>,
                  McuData(t, 0))
    /\ UNCHANGED sdk_vars
    /\ UNCHANGED <<connected_mcu, readback_faults>>

\* self.jlink.connect raised: logged, return False.
McuConnectRaises(t, r) ==
    /\ sdk_opened
    /\ \E c \in {sdk_target, FALSE} :
          IF c THEN UNCHANGED sdk_vars ELSE SdkTarget(t, FALSE)
    /\ last' = Op("connect_to_mcu", "fail", <<"set_tif", "connect">>,
                  McuData(t, 0))
    /\ UNCHANGED <<connected_mcu, readback_faults>>

\* connect returned but is_mcu_connected() is false: return False.
McuNotLive(t, r) ==
    /\ sdk_opened /\ sdk_connected
    /\ SdkTarget(t, FALSE)
    /\ last' = Op("connect_to_mcu", "fail", <<"set_tif", "connect">>,
                  McuData(t, 0))
    /\ UNCHANGED <<connected_mcu, readback_faults>>

\* The target is live and SDK read k raises: nothing catches it.
McuReadRaises(t, r) ==
    \E k \in 1..McuReads :
        /\ sdk_opened /\ sdk_connected
        /\ readback_faults < MaxReadbackFaults
        /\ readback_faults' = readback_faults + 1
        /\ SdkTarget(t, TRUE)
        /\ connected_mcu' = McuAfter(connected_mcu, t, k - 1)
        /\ last' = Op("connect_to_mcu", "raise", <<"set_tif", "connect">>,
                      McuData(t, k))

\* The target is live and every read returns: return True.
McuOk(t, r) ==
    /\ sdk_opened /\ sdk_connected
    /\ SdkTarget(t, TRUE)
    /\ connected_mcu' = McuAfter(connected_mcu, t, McuReads)
    /\ last' = Op("connect_to_mcu", "ok", <<"set_tif", "connect">>,
                  McuData(t, McuReads))
    /\ UNCHANGED readback_faults

ConnectToMcuFrame ==
    /\ UNCHANGED <<detected_jlinks, connected_jlink,
                   connected_jlink_serial_number, last_percentage>>
    /\ UNCHANGED rtt_vars

\* connect_to_mcu() to one of the targets T over one of the interface
\* arguments I, every path but a raising read.
ConnectToMcu(T, I) ==
    /\ \E t \in T, i \in I :
          LET r == jlink_interface_from_string(i)
          IN  \/ McuSetTifRaises(t, r)
              \/ McuConnectRaises(t, r)
              \/ McuNotLive(t, r)
              \/ McuOk(t, r)
    /\ ConnectToMcuFrame

\* connect_to_mcu(), a read after the liveness check raises. The SDK
\* handle ends as on the successful path of ConnectToMcu.
ConnectToMcuReadFault(T, I) ==
    /\ \E t \in T, i \in I :
          McuReadRaises(t, jlink_interface_from_string(i))
    /\ ConnectToMcuFrame

-----------------------------------------------------------------------------
(* disconnect()                                                            *)

\* self.jlink.close returned: return True.
DisconnectOk ==
    /\ SdkClosed
    /\ last' = Op("disconnect", "ok", <<"close">>, <<>>)

\* self.jlink.close raised: logged, return False. The handle is as it was,
\* or the SDK closed it before it raised.
DisconnectCloseRaises ==
    /\ \/ UNCHANGED sdk_vars
       \/ SdkClosed
    /\ last' = Op("disconnect", "fail", <<"close">>, <<>>)

Disconnect ==
    /\ \/ DisconnectOk
       \/ DisconnectCloseRaises
    /\ UNCHANGED <<detected_jlinks, connected_jlink, connected_mcu,
                   connected_jlink_serial_number, last_percentage,
                   readback_faults>>
    /\ UNCHANGED rtt_vars

-----------------------------------------------------------------------------
(* discover()                                                              *)

\* Sequences over S of length at most n.
SeqsUpTo(S, n) == UNION {[1..k -> S] : k \in 0..n}

\* acProduct of an enumerated probe, as bytes: "JL" in ASCII, the two
\* bytes of U+00E9 in UTF-8, and a byte string that is not UTF-8.
ProductBytes == {<<74, 76>>, <<195, 169>>, <<255>>}

\* What connected_emulators can list: one entry per attached probe, and the
\* same probe more than once.
ProbeEntries == [acProduct : ProductBytes, SerialNumber : Serials]

\* A continuation byte of a UTF-8 sequence.
Continuation(byte) == byte \in 128..191

\* The number of bytes of the well-formed UTF-8 sequence b starts with, 0
\* when it starts with none: no overlong form, no surrogate, nothing above
\* U+10FFFF, no sequence cut short.
SequenceLength(b) ==
    IF b[1] < 128 THEN 1
    ELSE IF /\ b[1] \in 194..223
            /\ Len(b) >= 2
            /\ Continuation(b[2])
        THEN 2
    ELSE IF /\ b[1] \in 224..239
            /\ Len(b) >= 3
            /\ b[2] \in (IF b[1] = 224 THEN 160..191
                          ELSE IF b[1] = 237 THEN 128..159
                          ELSE 128..191)
            /\ Continuation(b[3])
        THEN 3
    ELSE IF /\ b[1] \in 240..244
            /\ Len(b) >= 4
            /\ b[2] \in (IF b[1] = 240 THEN 144..191
                          ELSE IF b[1] = 244 THEN 128..143
                          ELSE 128..191)
            /\ Continuation(b[3])
            /\ Continuation(b[4])
        THEN 4
    ELSE 0

\* The code point of a well-formed UTF-8 sequence of n bytes.
CodePoint(b, n) ==
    IF n = 1 THEN b[1]
    ELSE IF n = 2 THEN (b[1] - 192) * 64 + (b[2] - 128)
    ELSE IF n = 3
        THEN (b[1] - 224) * 4096 + (b[2] - 128) * 64 + (b[3] - 128)
    ELSE (b[1] - 240) * 262144 + (b[2] - 128) * 4096
             + (b[3] - 128) * 64 + (b[4] - 128)

RECURSIVE Decodable(_)
\* Whether bytes.decode() returns: the bytes are well-formed UTF-8. On
\* anything else it raises UnicodeDecodeError.
Decodable(b) ==
    \/ b = <<>>
    \/ /\ SequenceLength(b) > 0
       /\ Decodable(SubSeq(b, SequenceLength(b) + 1, Len(b)))

RECURSIVE Decode(_)
\* bytes.decode() of well-formed UTF-8: the code points of the string.
Decode(b) ==
    IF b = <<>> THEN <<>>
    ELSE <<CodePoint(b, SequenceLength(b))>>
             \o Decode(SubSeq(b, SequenceLength(b) + 1, Len(b)))

RECURSIVE DiscoverLoop_NoDedup(_, _)
\* DiscoverLoop without the test "device not in self.detected_jlinks".
DiscoverLoop_NoDedup(list, probes) ==
    IF probes = <<>> THEN [list |-> list, raised |-> FALSE]
    ELSE IF ~Decodable(Head(probes).acProduct)
        THEN [list |-> list, raised |-> TRUE]
    ELSE DiscoverLoop_NoDedup(
            Append(list, [product_name  |-> Decode(Head(probes).acProduct),
                          serial_number |-> Head(probes).SerialNumber]),
            Tail(probes))

RECURSIVE DiscoverLoop(_, _)
\* The for loop of discover over the probes left, from the list built so
\* far: the list it ends with, and whether decode() raised on the way.
DiscoverLoop(list, probes) ==
    IF probes = <<>> THEN [list |-> list, raised |-> FALSE]
    ELSE IF ~Decodable(Head(probes).acProduct)
        THEN [list |-> list, raised |-> TRUE]
    ELSE LET device == [product_name  |-> Decode(Head(probes).acProduct),
                        serial_number |-> Head(probes).SerialNumber]
         IN  IF \E i \in 1..Len(list) : list[i] = device
                 THEN DiscoverLoop(list, Tail(probes))
                 ELSE DiscoverLoop(Append(list, device), Tail(probes))

\* Whether connected_emulators answers this call of discover as it answered
\* the call before it, with no other operation in between.
SameEnumeration(raised, probes) ==
    /\ last.op = "discover"
    /\ last.data.raised = raised
    /\ last.data.probes = probes

\* DiscoverEnumRaises with the clear() after the enumeration: the list of
\* the call before is kept when the enumeration raises.
DiscoverEnumRaises_KeepsList ==
    /\ UNCHANGED detected_jlinks
    /\ last' = Op("discover", "fail", <<"connected_emulators">>,
                  [raised |-> TRUE, probes |-> <<>>,
                   again  |-> SameEnumeration(TRUE, <<>>),
                   before |-> Len(detected_jlinks)])

\* connected_emulators raised: the list was cleared, return False. The
\* record keeps the length the list had before the call.
DiscoverEnumRaises ==
    /\ detected_jlinks' = <<>>
    /\ last' = Op("discover", "fail", <<"connected_emulators">>,
                  [raised |-> TRUE, probes |-> <<>>,
                   again  |-> SameEnumeration(TRUE, <<>>),
                   before |-> Len(detected_jlinks)])

\* DiscoverEnumReturns without the clear() of line 97: the probes found
\* are added to the list of the call before.
DiscoverEnumReturns_NoClear ==
    \E probes \in SeqsUpTo(ProbeEntries, MaxEnum) :
        LET r == DiscoverLoop(<<>>, probes)
        IN  /\ detected_jlinks' = detected_jlinks \o r.list
            /\ last' = Op("discover",
                          IF r.raised THEN "raise"
                          ELSE IF Len(r.list) = 0 THEN "fail" ELSE "ok",
                          <<"connected_emulators">>,
                          [raised |-> FALSE, probes |-> probes,
                           again  |-> SameEnumeration(FALSE, probes)])

\* connected_emulators returned probes: the list is rebuilt; False when it
\* ends empty, True otherwise, and a decode() that raises leaves discover.
DiscoverEnumReturns ==
    \E probes \in SeqsUpTo(ProbeEntries, MaxEnum) :
        LET r == DiscoverLoop(<<>>, probes)
        IN  /\ detected_jlinks' = r.list
            /\ last' = Op("discover",
                          IF r.raised THEN "raise"
                          ELSE IF Len(r.list) = 0 THEN "fail" ELSE "ok",
                          <<"connected_emulators">>,
                          [raised |-> FALSE, probes |-> probes,
                           again  |-> SameEnumeration(FALSE, probes)])

Discover ==
    /\ \/ DiscoverEnumRaises
       \/ DiscoverEnumReturns
    /\ UNCHANGED sdk_vars
    /\ UNCHANGED <<connected_jlink, connected_mcu,
                   connected_jlink_serial_number, last_percentage,
                   readback_faults>>
    /\ UNCHANGED rtt_vars

is_any_jlink == Len(detected_jlinks) > 0

-----------------------------------------------------------------------------
(* fw_flash_on_progress, fw_flash_file and fw_dump_file                    *)

\* The byte values of the model.
Bytes == {0, 1}

ByteSeqs == SeqsUpTo(Bytes, MaxFwLen)

\* What stands for the bytes of a read that raised, and for a file that
\* could not be read: not a byte sequence.
Raised == <<-1>>

\* round(percentage), for a percentage given in halves (h = 2 * percentage):
\* Python rounds a tie to the even neighbour.
PyRound(h) ==
    IF h % 2 = 0 THEN h \div 2
    ELSE IF (h \div 2) % 2 = 0 THEN h \div 2 ELSE (h \div 2) + 1

\* The percentages the SDK reports, in halves: 0, 1.5 and 100.
ProgressReports == {0, 3, 200}

\* ProgressLogs without the comparison: every call is logged.
ProgressLogs_EveryCall(lp, h) == TRUE

\* Whether fw_flash_on_progress logs the report h when the last percentage
\* is lp.
ProgressLogs(lp, h) == PyRound(h) # lp

\* self.last_percentage after fw_flash_on_progress(_, _, h).
fw_flash_on_progress(lp, h) == PyRound(h)

RECURSIVE ProgressAfter(_, _)
\* self.last_percentage after the SDK delivered the reports hs in order.
ProgressAfter(lp, hs) ==
    IF hs = <<>> THEN lp
    ELSE ProgressAfter(fw_flash_on_progress(lp, Head(hs)), Tail(hs))

\* Lines 354 and 355 for report number n: the line fw_flash_on_progress
\* logs, as the report's number and the percentage it prints.
ProgressEmits(lp, h, n) ==
    IF ProgressLogs(lp, h) THEN <<[at |-> n, percentage |-> PyRound(h)]>>
                           ELSE <<>>

\* The percentages flash_file hands to its callback one by one, in halves:
\* 0, 10, 11 and 100. The SDK's callback type declares them integers.
SdkPercentages == {0, 20, 22, 200}

\* The calls of fw_flash_on_progress on record: those made one after the
\* other up to the last operation, the percentages they were handed and
\* what they logged.
\* starts holds the numbers of the reports that were the first to follow
\* the start of a fw_flash_file.
ProgressRun ==
    IF last.op \in {"fw_flash_on_progress", "fw_flash_file_starts"}
        THEN last.data
        ELSE [reported |-> <<>>, logged |-> <<>>, starts |-> {}]

\* One call of fw_flash_on_progress by a flash_file in progress.
FwFlashOnProgress ==
    /\ Len(ProgressRun.reported) < MaxReports
    /\ \E h \in SdkPercentages :
          /\ last_percentage' = fw_flash_on_progress(last_percentage, h)
          /\ last' = Op("fw_flash_on_progress", "ok", <<>>,
                [reported |-> Append(ProgressRun.reported, h),
                 logged   |-> ProgressRun.logged
                    \o ProgressEmits(last_percentage, h,
                                     Len(ProgressRun.reported) + 1),
                 starts   |-> ProgressRun.starts])
    /\ UNCHANGED sdk_vars
    /\ UNCHANGED <<detected_jlinks, connected_jlink, connected_mcu,
                   connected_jlink_serial_number, readback_faults>>
    /\ UNCHANGED rtt_vars

\* The reports on record when fw_flash_file is called again and again.
MaxFlashReports == 4

\* FwFlashFileStarts that sets the last percentage back to 0 for the flash
\* it starts.
FwFlashFileStarts_Resets ==
    /\ is_jlink_mcu_connected
    /\ last_percentage' = 0
    /\ last' = Op("fw_flash_file_starts", "ok", <<"open_rb", "unlock">>,
                  [ProgressRun EXCEPT
                      !.starts = @ \cup {Len(ProgressRun.reported) + 1}])
    /\ UNCHANGED sdk_vars
    /\ UNCHANGED <<detected_jlinks, connected_jlink, connected_mcu,
                   connected_jlink_serial_number, readback_faults>>
    /\ UNCHANGED rtt_vars

\* fw_flash_file from its call to its call of flash_file (lines 297 to
\* 327), after which flash_file reports its progress: on_progress defaults
\* to fw_flash_on_progress and self.last_percentage is not assigned.
FwFlashFileStarts ==
    /\ is_jlink_mcu_connected
    /\ UNCHANGED last_percentage
    /\ last' = Op("fw_flash_file_starts", "ok", <<"open_rb", "unlock">>,
                  [ProgressRun EXCEPT
                      !.starts = @ \cup {Len(ProgressRun.reported) + 1}])
    /\ UNCHANGED sdk_vars
    /\ UNCHANGED <<detected_jlinks, connected_jlink, connected_mcu,
                   connected_jlink_serial_number, readback_faults>>
    /\ UNCHANGED rtt_vars

\* FlashVerified without the comparison of the byte values.
FlashVerified_LengthOnly(fw_bytes, read_bytes) ==
    Len(read_bytes) = Len(fw_bytes)

\* The verification of fw_flash_file, lines 339 to 348: True only when the
\* bytes read back have the length and the values of the file's bytes.
FlashVerified(fw_bytes, read_bytes) ==
    IF Len(read_bytes) # Len(fw_bytes) THEN FALSE
    ELSE IF read_bytes # fw_bytes THEN FALSE
    ELSE TRUE

XferFrame ==
    /\ UNCHANGED sdk_vars
    /\ UNCHANGED <<detected_jlinks, connected_jlink, connected_mcu,
                   connected_jlink_serial_number, readback_faults>>
    /\ UNCHANGED rtt_vars

\* FlashNotReady that tests the ready state after it read the file.
FlashNotReady_ReadsFile ==
    /\ ~is_jlink_mcu_connected
    /\ last' = Op("fw_flash_file", "fail", <<"open_rb">>,
                  [file |-> Raised, unlock |-> "none", read |-> Raised])
    /\ UNCHANGED last_percentage

\* Not ready: return False before anything is read or called.
FlashNotReady ==
    /\ ~is_jlink_mcu_connected
    /\ last' = Op("fw_flash_file", "fail", <<>>,
                  [file |-> Raised, unlock |-> "none", read |-> Raised])
    /\ UNCHANGED last_percentage

\* FlashFileUnreadable that unlocks the target before it reads the file.
FlashFileUnreadable_Unlocks ==
    /\ is_jlink_mcu_connected
    /\ last' = Op("fw_flash_file", "fail", <<"unlock", "open_rb">>,
                  [file |-> Raised, unlock |-> "ok", read |-> Raised])
    /\ UNCHANGED last_percentage

\* The firmware file cannot be read: return False.
FlashFileUnreadable ==
    /\ is_jlink_mcu_connected
    /\ last' = Op("fw_flash_file", "fail", <<"open_rb">>,
                  [file |-> Raised, unlock |-> "none", read |-> Raised])
    /\ UNCHANGED last_percentage

\* The file holds fw_bytes, unlock raises or not (u), then flash_file
\* raises after the progress reports hs: return False.
FlashFlashRaises(fw_bytes, u, hs) ==
    /\ is_jlink_mcu_connected
    /\ last_percentage' = ProgressAfter(last_percentage, hs)
    /\ last' = Op("fw_flash_file", "fail",
                  <<"open_rb", "unlock", "flash_file">>,
                  [file |-> fw_bytes, unlock |-> u, read |-> Raised])

\* flash_file returned and the memory read of the read-back raises:
\* return False.
FlashReadRaises(fw_bytes, u, hs) ==
    /\ is_jlink_mcu_connected
    /\ last_percentage' = ProgressAfter(last_percentage, hs)
    /\ last' = Op("fw_flash_file", "fail",
                  <<"open_rb", "unlock", "flash_file", "memory_read">>,
                  [file |-> fw_bytes, unlock |-> u, read |-> Raised])

\* FlashReadBack that gives up when the unlock raised.
FlashReadBack_UnlockMust(fw_bytes, u, hs, read_bytes) ==
    /\ is_jlink_mcu_connected
    /\ last_percentage' = IF u = "raise" THEN last_percentage
                          ELSE ProgressAfter(last_percentage, hs)
    /\ last' = Op("fw_flash_file",
                  IF u = "ok" /\ FlashVerified(fw_bytes, read_bytes)
                      THEN "ok" ELSE "fail",
                  IF u = "raise" THEN <<"open_rb", "unlock">>
                  ELSE <<"open_rb", "unlock", "flash_file", "memory_read">>,
                  [file |-> fw_bytes, unlock |-> u, read |-> read_bytes])

\* flash_file returned and the read-back returned read_bytes: the result
\* is that of the verification.
FlashReadBack(fw_bytes, u, hs, read_bytes) ==
    /\ is_jlink_mcu_connected
    /\ last_percentage' = ProgressAfter(last_percentage, hs)
    /\ last' = Op("fw_flash_file",
                  IF FlashVerified(fw_bytes, read_bytes) THEN "ok"
                                                         ELSE "fail",
                  <<"open_rb", "unlock", "flash_file", "memory_read">>,
                  [file |-> fw_bytes, unlock |-> u, read |-> read_bytes])

\* fw_flash_file on a file that cannot be read or holds one of Files,
\* with the progress reports of one of Reports and a read-back that raises
\* or returns one of Reads.
FwFlashFileOn(Files, Reports, Reads) ==
    /\ \/ FlashNotReady
       \/ FlashFileUnreadable
       \/ \E fw_bytes \in Files, u \in {"ok", "raise"}, hs \in Reports :
             \/ FlashFlashRaises(fw_bytes, u, hs)
             \/ FlashReadRaises(fw_bytes, u, hs)
             \/ \E read_bytes \in Reads :
                   FlashReadBack(fw_bytes, u, hs, read_bytes)
    /\ XferFrame

FwFlashFile ==
    FwFlashFileOn(ByteSeqs, SeqsUpTo(ProgressReports, MaxProgress), ByteSeqs)

\* The files, progress reports and read-backs of the flashes whose unlock
\* outcome is compared: an empty file, one that is read back as it is, cut
\* short or with another byte, with no report or a report of 1.5 percent.
UnlockFiles == {<<>>, <<1>>, <<1, 2>>}

UnlockReports == {<<>>, <<3>>}

UnlockReads == {<<>>, <<1>>, <<1, 2>>, <<1, 1>>}

\* length_to_read of fw_dump_file: None for the default.
NoLength == <<-1>>

LengthArgs == {NoLength} \cup {<<n>> : n \in 0..MaxFwLen}

\* Lines 272 and 273: the length asked of the SDK, as the Python value.
DumpLength(length_to_read) ==
    IF length_to_read = NoLength THEN connected_mcu.flash_size
                                 ELSE length_to_read

\* Not ready: return False before anything is read or called.
DumpNotReady(len) ==
    /\ ~is_jlink_mcu_connected
    /\ last' = Op("fw_dump_file", "fail", <<>>,
                  [length |-> len, read |-> Raised])

\* memory_read raised (it always does when the length is the empty string
\* of a snapshot never taken): return False.
DumpReadRaises(len) ==
    /\ is_jlink_mcu_connected
    /\ last' = Op("fw_dump_file", "fail", <<"memory_read">>,
                  [length |-> DumpLength(len), read |-> Raised])

\* DumpLengthMismatch without the length test: the bytes are written.
DumpLengthMismatch_Writes(len, read_bytes) ==
    /\ is_jlink_mcu_connected
    /\ DumpLength(len) # <<>>
    /\ Len(read_bytes) # DumpLength(len)[1]
    /\ last' = Op("fw_dump_file", "ok", <<"memory_read", "open_wb", "write">>,
                  [length |-> DumpLength(len), read |-> read_bytes])

\* memory_read returned another number of bytes than asked: return False.
DumpLengthMismatch(len, read_bytes) ==
    /\ is_jlink_mcu_connected
    /\ DumpLength(len) # <<>>
    /\ Len(read_bytes) # DumpLength(len)[1]
    /\ last' = Op("fw_dump_file", "fail", <<"memory_read">>,
                  [length |-> DumpLength(len), read |-> read_bytes])

\* The length is right and the destination cannot be opened or written:
\* return False.
DumpWriteFails(len, read_bytes, calls) ==
    /\ is_jlink_mcu_connected
    /\ DumpLength(len) # <<>>
    /\ Len(read_bytes) = DumpLength(len)[1]
    /\ last' = Op("fw_dump_file", "fail", <<"memory_read">> \o calls,
                  [length |-> DumpLength(len), read |-> read_bytes])

\* The length is right and the bytes are written: return True.
DumpOk(len, read_bytes) ==
    /\ is_jlink_mcu_connected
    /\ DumpLength(len) # <<>>
    /\ Len(read_bytes) = DumpLength(len)[1]
    /\ last' = Op("fw_dump_file", "ok", <<"memory_read", "open_wb", "write">>,
                  [length |-> DumpLength(len), read |-> read_bytes])

FwDumpFile ==
    /\ \E len \in LengthArgs :
          \/ DumpNotReady(len)
          \/ DumpReadRaises(len)
          \/ \E read_bytes \in ByteSeqs :
                \/ DumpLengthMismatch(len, read_bytes)
                \/ \E calls \in {<<"open_wb">>, <<"open_wb", "write">>} :
                      DumpWriteFails(len, read_bytes, calls)
                \/ DumpOk(len, read_bytes)
    /\ UNCHANGED last_percentage
    /\ XferFrame

-----------------------------------------------------------------------------
(* rtt_start and rtt_read                                                  *)

\* The character codes rtt_read can be handed: line feed, carriage return,
\* "a" and "b".
RttBytes == {LF, CR, 97, 98}

\* What get_timestamp returns: "" when reading the clock raised (lines 473
\* to 476), and else the text of the clock value, "[ts]" wherever the
\* digits are not looked into.
get_timestamp(raised) == IF raised THEN "" ELSE "[ts]"

\* RttAccumulate without the reset after a line is logged.
RttAccumulate_NoReset(line, byte) ==
    IF byte # CR /\ byte # LF THEN Append(line, byte) ELSE line

\* RttAccumulate without the test for the carriage return.
RttAccumulate_KeepsCR(line, byte) ==
    IF byte = LF THEN <<>> ELSE Append(line, byte)

\* Lines 391 to 401 for one byte: the accumulator it leaves.
RttAccumulate(line, byte) ==
    LET appended == IF byte # CR /\ byte # LF THEN Append(line, byte)
                                              ELSE line
    IN  IF byte = LF THEN <<>> ELSE appended

\* Lines 395 to 400 for one byte: the lines it logs, each with the timestamp
\* it is prefixed with and the number of log files handlers it reaches.
RttEmits(line, byte, raised) ==
    LET appended == IF byte # CR /\ byte # LF THEN Append(line, byte)
                                              ELSE line
    IN  IF byte = LF
            THEN <<[stamp  |-> get_timestamp(raised),
                    text   |-> appended,
                    copies |-> file_handlers]>>
            ELSE <<>>

RttFrame ==
    /\ UNCHANGED sdk_vars
    /\ UNCHANGED <<detected_jlinks, connected_jlink, connected_mcu,
                   connected_jlink_serial_number, last_percentage,
                   readback_faults>>

\* RttStartWith that returns False when the log file cannot be attached,
\* without a call of the SDK.
RttStartWith_NeedsLogFile(Attach, max_handlers) ==
    /\ \E attach \in Attach, sdk \in {"ok", "raise"} :
          /\ attach = "ok" => file_handlers < max_handlers
          /\ file_handlers' = IF attach = "ok" THEN file_handlers + 1
                                               ELSE file_handlers
          /\ last' = Op("rtt_start",
                        IF sdk = "ok" /\ attach # "raise" THEN "ok"
                                                          ELSE "fail",
                        IF attach = "raise" THEN <<>> ELSE <<"rtt_start">>,
                        [attach |-> attach, sdk |-> sdk])
    /\ rtt_read_line' = <<>>
    /\ fed' = <<>>
    /\ emitted' = <<>>
    /\ line_breaks' = {}
    /\ RttFrame

\* rtt_start(logfile): the accumulator is reset; with a log file a handler
\* is attached unless that raises (attach is "none", "ok" or "raise"); the
\* result is that of the SDK's rtt_start.
RttStartWith(Attach, max_handlers) ==
    /\ \E attach \in Attach, sdk \in {"ok", "raise"} :
          /\ attach = "ok" => file_handlers < max_handlers
          /\ file_handlers' = IF attach = "ok" THEN file_handlers + 1
                                               ELSE file_handlers
          /\ last' = Op("rtt_start", IF sdk = "ok" THEN "ok" ELSE "fail",
                        <<"rtt_start">>, [attach |-> attach, sdk |-> sdk])
    /\ rtt_read_line' = <<>>
    /\ fed' = <<>>
    /\ emitted' = <<>>
    /\ line_breaks' = {}
    /\ RttFrame

RttStart == RttStartWith({"none", "ok", "raise"}, MaxHandlers)

\* The handlers rtt_start calls attach to the logger when each of them is
\* given a log file that can be opened.
MaxLogHandlers == 2

\* The failed reads on record once a read failed for the reason why: they
\* are recorded while the accumulator holds the start of a line.
LineBreak(why) ==
    IF rtt_read_line # <<>> THEN line_breaks \cup {why} ELSE line_breaks

\* RttReadNotReady that starts the line again.
RttReadNotReady_DropsLine ==
    /\ ~is_jlink_mcu_connected
    /\ last' = Op("rtt_read", "fail", <<>>, <<>>)
    /\ rtt_read_line' = <<>>
    /\ line_breaks' = LineBreak("notready")
    /\ UNCHANGED <<fed, emitted>>

\* Not ready: return False, the SDK is not asked.
RttReadNotReady ==
    /\ ~is_jlink_mcu_connected
    /\ last' = Op("rtt_read", "fail", <<>>, <<>>)
    /\ line_breaks' = LineBreak("notready")
    /\ UNCHANGED <<rtt_read_line, fed, emitted>>

\* RttReadRaises that starts the line again.
RttReadRaises_DropsLine ==
    /\ is_jlink_mcu_connected
    /\ last' = Op("rtt_read", "fail", <<"rtt_read">>, Raised)
    /\ rtt_read_line' = <<>>
    /\ line_breaks' = LineBreak("fault")
    /\ UNCHANGED <<fed, emitted>>

\* The SDK's rtt_read raised: logged, return False.
RttReadRaises ==
    /\ is_jlink_mcu_connected
    /\ last' = Op("rtt_read", "fail", <<"rtt_read">>, Raised)
    /\ line_breaks' = LineBreak("fault")
    /\ UNCHANGED <<rtt_read_line, fed, emitted>>

\* The SDK had no byte: return True.
RttReadNothing ==
    /\ is_jlink_mcu_connected
    /\ last' = Op("rtt_read", "ok", <<"rtt_read">>, <<>>)
    /\ UNCHANGED <<rtt_read_line, fed, emitted, line_breaks>>

\* The SDK handed one byte: return True.
RttReadByte(byte) ==
    /\ is_jlink_mcu_connected
    /\ Len(fed) < MaxFed
    /\ fed' = Append(fed, byte)
    /\ rtt_read_line' = RttAccumulate(rtt_read_line, byte)
    /\ \E raised \in BOOLEAN :
          /\ raised => byte = LF
          /\ emitted' = emitted \o RttEmits(rtt_read_line, byte, raised)
    /\ line_breaks' = IF RttAccumulate(rtt_read_line, byte) = <<>>
                          THEN {} ELSE line_breaks
    /\ last' = Op("rtt_read", "ok", <<"rtt_read">>, <<byte>>)

\* datetime.utcnow() has returned at every call of get_timestamp so far:
\* each line logged since rtt_start has its timestamp.
ClockRuns == \A i \in 1..Len(emitted) : emitted[i].stamp # ""

RttRead ==
    /\ \/ RttReadNotReady
       \/ RttReadRaises
       \/ RttReadNothing
       \/ \E byte \in RttBytes : RttReadByte(byte)
    /\ UNCHANGED file_handlers
    /\ RttFrame

-----------------------------------------------------------------------------
(* rtt_write(data)                                                         *)

\* bytearray(data, "utf-8") for one code point below 2048.
Utf8Char(c) ==
    IF c < 128 THEN <<c>> ELSE <<192 + (c \div 64), 128 + (c % 64)>>

RECURSIVE Utf8(_)
Utf8(data) ==
    IF data = <<>> THEN <<>> ELSE Utf8Char(Head(data)) \o Utf8(Tail(data))

\* RttWriteBytes without the terminator.
RttWriteBytes_NoTerminator(data) == Utf8(data)

\* Line 416: the bytes handed to the SDK, the text and "\n\0".
RttWriteBytes(data) == Utf8(data) \o <<10, 0>>

\* The texts the scripts' callers write: "", "a" and "e" with an acute
\* accent.
WriteData == {<<>>, <<97>>, <<233>>}

\* Not ready: return False, the SDK is not asked.
RttWriteNotReady(data) ==
    /\ ~is_jlink_mcu_connected
    /\ last' = Op("rtt_write", "fail", <<>>,
                  [text |-> data, data |-> RttWriteBytes(data),
                   written |-> Raised])

\* The SDK's rtt_write raised: return False.
RttWriteRaises(data) ==
    /\ is_jlink_mcu_connected
    /\ last' = Op("rtt_write", "fail", <<"rtt_write">>,
                  [text |-> data, data |-> RttWriteBytes(data),
                   written |-> Raised])

\* The SDK wrote n bytes: True when n is the number of bytes handed.
RttWriteReturns(data, n) ==
    /\ is_jlink_mcu_connected
    /\ last' = Op("rtt_write",
                  IF n # Len(RttWriteBytes(data)) THEN "fail" ELSE "ok",
                  <<"rtt_write">>,
                  [text |-> data, data |-> RttWriteBytes(data),
                   written |-> <<n>>])

RttWrite ==
    /\ \E data \in WriteData :
          \/ RttWriteNotReady(data)
          \/ RttWriteRaises(data)
          \/ \E n \in 0..Len(RttWriteBytes(data)) : RttWriteReturns(data, n)
    /\ UNCHANGED sdk_vars
    /\ UNCHANGED <<detected_jlinks, connected_jlink, connected_mcu,
                   connected_jlink_serial_number, last_percentage,
                   readback_faults>>
    /\ UNCHANGED rtt_vars

-----------------------------------------------------------------------------
(* The liveness queries as calls, and jlink_interface_from_string as one.  *)

\* A call of the query name that answers ans after the SDK calls given: the
\* result is "ok" for True and "fail" for False; before is the result of
\* the same query when it was the operation just before, else "".
Query(name, ans, calls) ==
    /\ last' = Op(name, IF ans THEN "ok" ELSE "fail", calls,
                  [before |-> IF last.op = name THEN <<last.res>> ELSE <<>>])
    /\ UNCHANGED sdk_vars
    /\ UNCHANGED <<detected_jlinks, connected_jlink, connected_mcu,
                   connected_jlink_serial_number, last_percentage,
                   readback_faults>>
    /\ UNCHANGED rtt_vars

\* The SDK calls of is_connected(): "and" asks connected() only of a handle
\* that is open.
IsConnectedCalls ==
    IF sdk_opened THEN <<"opened", "connected">> ELSE <<"opened">>

IsConnected == Query("is_connected", is_connected, IsConnectedCalls)

IsMcuConnected ==
    Query("is_mcu_connected", is_mcu_connected, <<"target_connected">>)

IsJlinkMcuConnected ==
    Query("is_jlink_mcu_connected", is_jlink_mcu_connected,
          IF is_connected THEN IsConnectedCalls \o <<"target_connected">>
                          ELSE IsConnectedCalls)

\* s with the characters at the positions U in upper case.
Upper(str, U) ==
    [i \in 1..Len(str) |->
        IF i \in U /\ str[i] >= 97 /\ str[i] <= 122 THEN str[i] - 32
                                                     ELSE str[i]]

\* The names jlink_interface_from_string knows, in lower case: swd, jtag,
\* icsp, spi, fine and c2.
InterfaceNames ==
    {<<115, 119, 100>>, <<106, 116, 97, 103>>, <<105, 99, 115, 112>>,
     <<115, 112, 105>>, <<102, 105, 110, 101>>, <<99, 50>>}

\* Every casing of the name.
Casings(name) == {Upper(name, U) : U \in SUBSET (1..Len(name))}

\* The characters of the other strings: "s", "S", "w", "d", " " and the
\* capital A with a diaeresis.
InterfaceChars == {115, 83, 119, 100, 32, 196}

\* The interface arguments a caller can pass: none, every casing of every
\* name, and every short string of InterfaceChars.
InterfaceStrings ==
    {NoInterface} \cup UNION {Casings(name) : name \in InterfaceNames}
                  \cup SeqsUpTo(InterfaceChars, MaxInterfaceLen)

\* One call of jlink_interface_from_string: it returns for every argument.
InterfaceFromString ==
    /\ \E interface \in InterfaceStrings :
          LET r == jlink_interface_from_string(interface)
          IN  last' = Op("jlink_interface_from_string", "ok", <<>>,
                        [interface |-> interface, tif |-> r.tif,
                         warned |-> r.warned])
    /\ UNCHANGED sdk_vars
    /\ UNCHANGED <<detected_jlinks, connected_jlink, connected_mcu,
                   connected_jlink_serial_number, last_percentage,
                   readback_faults>>
    /\ UNCHANGED rtt_vars

-----------------------------------------------------------------------------
(* jlink_rtt.py: main() and the handler of the termination signals.        *)

\* The --serialnumber option is not given: main() takes the serial number
\* of the first probe detected (lines 123 to 126).
MainSerial == {detected_jlinks[1].serial_number}

\* Probes attached while jlink_rtt.py runs.
MaxMainProbes == 1

\* The count of rtt_read calls made after app_exit was set stops here.
MaxLateReads == 2

\* The characters the target prints while jlink_rtt.py runs: "a" and the
\* line feed.
MainBytes == {97, LF}

\* Where main() goes on after a controller call: it returns on False where
\* the script says so, and an exception ends the process.
MainAfter(on_ok, on_fail) ==
    IF last'.res = "raise" THEN "aborted"
    ELSE IF last'.res = "ok" THEN on_ok ELSE on_fail

\* Lines 119 to 121.
MainDiscover ==
    /\ pc = "discover"
    /\ Discover
    /\ Len(last'.data.probes) <= MaxMainProbes
    /\ pc' = MainAfter("connect", "done")
    /\ UNCHANGED <<app_exit, late_reads, disconnects, connects, probe_index>>

\* Lines 123 to 133.
MainConnect ==
    /\ pc = "connect"
    /\ \/ Connect(MainSerial)
       \/ ConnectReadFault(MainSerial)
    /\ pc' = MainAfter("connect_to_mcu", "done")
    /\ connects' = IF last'.res = "ok" THEN connects + 1 ELSE connects
    /\ UNCHANGED <<app_exit, late_reads, disconnects, probe_index>>

\* Line 135: on False, disconnect() and return come next.
MainConnectToMcu ==
    /\ pc = "connect_to_mcu"
    /\ \/ ConnectToMcu(TheTarget, TheInterface)
       \/ ConnectToMcuReadFault(TheTarget, TheInterface)
    /\ pc' = MainAfter("rtt_start", "disconnect")
    /\ UNCHANGED <<app_exit, late_reads, disconnects, connects, probe_index>>

\* Lines 139 to 141: the result of rtt_start is not looked at.
MainRttStart ==
    /\ pc = "rtt_start"
    /\ RttStart
    /\ pc' = "while"
    /\ UNCHANGED <<app_exit, late_reads, disconnects, connects, probe_index>>

\* MainWhile without the test of app_exit.
MainWhile_NoTest ==
    /\ pc = "while"
    /\ pc' = "rtt_read"
    /\ UNCHANGED <<app_exit, late_reads, disconnects, connects, probe_index,
                   last>>
    /\ UNCHANGED sdk_vars
    /\ UNCHANGED <<detected_jlinks, connected_jlink, connected_mcu,
                   connected_jlink_serial_number, last_percentage,
                   readback_faults>>
    /\ UNCHANGED rtt_vars

\* Line 142: "while not app_exit".
MainWhile ==
    /\ pc = "while"
    /\ pc' = IF app_exit THEN "disconnect" ELSE "rtt_read"
    /\ UNCHANGED <<app_exit, late_reads, disconnects, connects, probe_index,
                   last>>
    /\ UNCHANGED sdk_vars
    /\ UNCHANGED <<detected_jlinks, connected_jlink, connected_mcu,
                   connected_jlink_serial_number, last_percentage,
                   readback_faults>>
    /\ UNCHANGED rtt_vars

\* Line 143: one rtt_read of the loop, its result is not looked at.
MainRttRead ==
    /\ pc = "rtt_read"
    /\ RttRead
    /\ fed' # fed => fed'[Len(fed')] \in MainBytes
    /\ pc' = "while"
    /\ late_reads' = IF app_exit /\ late_reads < MaxLateReads
                         THEN late_reads + 1 ELSE late_reads
    /\ UNCHANGED <<app_exit, disconnects, connects, probe_index>>

\* Lines 136 and 137, 146 and 147: disconnect(), then main() returns.
MainDisconnect ==
    /\ pc = "disconnect"
    /\ Disconnect
    /\ pc' = "done"
    /\ disconnects' = disconnects + 1
    /\ UNCHANGED <<app_exit, late_reads, connects, probe_index>>

\* Where main() of jlink_rtt.py and of jlink_flash.py can be: the scripts
\* that attach system_termination_signal_handler before they call main().
HandlerPositions ==
    {"discover", "connect", "connect_to_mcu", "rtt_start", "while",
     "rtt_read", "disconnect",
     "flash_discover", "flash_connect", "flash_connect_to_mcu", "flash_file",
     "flash_disconnect"}

\* system_termination_signal_handler, run by SIGTERM, SIGINT or SIGUSR1
\* while the process lives.
SignalHandler ==
    /\ pc \in HandlerPositions
    /\ app_exit' = TRUE
    /\ UNCHANGED <<pc, late_reads, disconnects, connects, probe_index, last>>
    /\ UNCHANGED sdk_vars
    /\ UNCHANGED <<detected_jlinks, connected_jlink, connected_mcu,
                   connected_jlink_serial_number, last_percentage,
                   readback_faults>>
    /\ UNCHANGED rtt_vars

\* The steps of main().
MainStep ==
    \/ MainDiscover
    \/ MainConnect
    \/ MainConnectToMcu
    \/ MainRttStart
    \/ MainWhile
    \/ MainRttRead
    \/ MainDisconnect

-----------------------------------------------------------------------------
(* get_timestamp on a clock value. A string is the sequence of its         *)
(* character codes.                                                        *)

\* "{}".format(n) for a natural number: its decimal digits.
RECURSIVE Format(_)
-----------------------------------------------------------------------------
(* jlink_flash.py, jlink_mcu_info.py, jlink_info.py, jlink_detect.py and    *)
(* jlink_list.py: their main(). Every script starts with a fresh           *)
(* controller and discover(); pc tells which script runs.                  *)

\* Probes attached while jlink_info.py runs.
MaxInfoProbes == 2

\* The files jlink_flash.py is given, the progress reports of the flash
\* and the read-backs: a two byte file read back as it is or with another
\* byte.
ScriptFiles == {<<0, 1>>}

ScriptReports == {<<>>, <<200>>}

ScriptReads == {<<0, 1>>, <<0, 0>>}

\* discover() and the return on False, then the default serial number:
\* jlink_flash.py lines 124 to 131, jlink_mcu_info.py lines 99 to 107.
ScriptDiscover(at, on_ok) ==
    /\ pc = at
    /\ Discover
    /\ Len(last'.data.probes) <= MaxMainProbes
    /\ pc' = MainAfter(on_ok, "done")
    /\ UNCHANGED <<app_exit, late_reads, disconnects, connects, probe_index>>

\* connect() and the return on False: jlink_flash.py lines 133 and 134,
\* jlink_mcu_info.py lines 109 and 110.
ScriptConnect(at, on_ok) ==
    /\ pc = at
    /\ \/ Connect(MainSerial)
       \/ ConnectReadFault(MainSerial)
    /\ pc' = MainAfter(on_ok, "done")
    /\ connects' = IF last'.res = "ok" THEN connects + 1 ELSE connects
    /\ UNCHANGED <<app_exit, late_reads, disconnects, probe_index>>

\* ScriptConnectToMcu that returns on False without the disconnect().
ScriptConnectToMcu_Returns(at, on_ok, on_fail) ==
    /\ pc = at
    /\ \/ ConnectToMcu(TheTarget, TheInterface)
       \/ ConnectToMcuReadFault(TheTarget, TheInterface)
    /\ pc' = MainAfter(on_ok, "done")
    /\ UNCHANGED <<app_exit, late_reads, disconnects, connects, probe_index>>

\* connect_to_mcu(); on False, disconnect() and return come next:
\* jlink_flash.py lines 136 to 138, jlink_mcu_info.py lines 113 to 115.
ScriptConnectToMcu(at, on_ok, on_fail) ==
    /\ pc = at
    /\ \/ ConnectToMcu(TheTarget, TheInterface)
       \/ ConnectToMcuReadFault(TheTarget, TheInterface)
    /\ pc' = MainAfter(on_ok, on_fail)
    /\ UNCHANGED <<app_exit, late_reads, disconnects, connects, probe_index>>

\* disconnect(), then main() returns: jlink_flash.py lines 137, 143 and
\* 147, jlink_mcu_info.py lines 114 and 119.
ScriptDisconnect(at) ==
    /\ pc = at
    /\ Disconnect
    /\ pc' = "done"
    /\ disconnects' = disconnects + 1
    /\ UNCHANGED <<app_exit, late_reads, connects, probe_index>>

\* jlink_flash.py lines 142 to 147: fw_flash_file(); disconnect() and
\* return come next whatever it returned.
FlashFwFlashFile ==
    /\ pc = "flash_file"
    /\ FwFlashFileOn(ScriptFiles, ScriptReports, ScriptReads)
    /\ pc' = MainAfter("flash_disconnect", "flash_disconnect")
    /\ UNCHANGED <<app_exit, late_reads, disconnects, connects, probe_index>>

\* The steps of main() of jlink_flash.py.
FlashStep ==
    \/ ScriptDiscover("flash_discover", "flash_connect")
    \/ ScriptConnect("flash_connect", "flash_connect_to_mcu")
    \/ ScriptConnectToMcu("flash_connect_to_mcu", "flash_file",
                          "flash_disconnect")
    \/ FlashFwFlashFile
    \/ ScriptDisconnect("flash_disconnect")

\* The steps of main() of jlink_mcu_info.py.
McuInfoStep ==
    \/ ScriptDiscover("mcu_info_discover", "mcu_info_connect")
    \/ ScriptConnect("mcu_info_connect", "mcu_info_connect_to_mcu")
    \/ ScriptConnectToMcu("mcu_info_connect_to_mcu", "mcu_info_disconnect",
                          "mcu_info_disconnect")
    \/ ScriptDisconnect("mcu_info_disconnect")

\* Where the for loop of jlink_info.py goes on once it is past n probes:
\* to the next probe, or out of the loop to the return of line 93.
InfoFor(n) == IF n < Len(detected_jlinks) THEN "info_connect" ELSE "done"

\* jlink_info.py lines 66 to 70: discover() and the return on False; the
\* list is not empty after a discover() that returned True.
InfoDiscover ==
    /\ pc = "info_discover"
    /\ Discover
    /\ Len(last'.data.probes) <= MaxInfoProbes
    /\ pc' = MainAfter("info_connect", "done")
    /\ UNCHANGED <<app_exit, late_reads, disconnects, connects, probe_index>>

\* jlink_info.py lines 74 to 77: connect() to the next probe of the list;
\* on False the loop goes on with the probe after it.
InfoConnect ==
    /\ pc = "info_connect"
    /\ probe_index < Len(detected_jlinks)
    /\ LET serial == {detected_jlinks[probe_index + 1].serial_number}
       IN  \/ Connect(serial)
           \/ ConnectReadFault(serial)
    /\ probe_index' = probe_index + 1
    /\ connects' = IF last'.res = "ok" THEN connects + 1 ELSE connects
    /\ pc' = MainAfter("info_disconnect", InfoFor(probe_index + 1))
    /\ UNCHANGED <<app_exit, late_reads, disconnects>>

\* jlink_info.py lines 78 to 81: disconnect(), then the loop goes on.
InfoDisconnect ==
    /\ pc = "info_disconnect"
    /\ Disconnect
    /\ pc' = InfoFor(probe_index)
    /\ disconnects' = disconnects + 1
    /\ UNCHANGED <<app_exit, late_reads, connects, probe_index>>

\* The steps of main() of jlink_info.py.
InfoStep ==
    \/ InfoDiscover
    \/ InfoConnect
    \/ InfoDisconnect

\* Where the for loop of jlink_detect.py goes on once it is past n probes:
\* to the next entry, or out of the loop to the return of line 82.
DetectFor(n) == IF n < Len(detected_jlinks) THEN "detect_connect" ELSE "done"

\* jlink_detect.py lines 67 to 71: discover() and the return on False; the
\* list is not empty after a discover() that returned True.
DetectDiscover ==
    /\ pc = "detect_discover"
    /\ Discover
    /\ Len(last'.data.probes) <= MaxInfoProbes
    /\ pc' = MainAfter("detect_connect", "done")
    /\ UNCHANGED <<app_exit, late_reads, disconnects, connects, probe_index>>

\* What connect() is called with at line 74 of jlink_detect.py: the entry
\* of the list itself, not its serial number. What open() makes of it is up
\* to the SDK: it raises, or it opens one of the probes that were listed.
DetectArguments ==
    {<<detected_jlinks[i].serial_number, detected_jlinks[probe_index + 1]>> :
        i \in 1..Len(detected_jlinks)}

\* jlink_detect.py lines 73 to 78: connect() with the next entry of the
\* list; on False the loop goes on with the entry after it.
DetectConnect ==
    /\ pc = "detect_connect"
    /\ probe_index < Len(detected_jlinks)
    /\ \/ ConnectAs(DetectArguments)
       \/ ConnectReadFaultAs(DetectArguments)
    /\ probe_index' = probe_index + 1
    /\ connects' = IF last'.res = "ok" THEN connects + 1 ELSE connects
    /\ pc' = MainAfter("detect_disconnect", DetectFor(probe_index + 1))
    /\ UNCHANGED <<app_exit, late_reads, disconnects>>

\* jlink_detect.py lines 79 to 81: disconnect(), then the loop goes on.
DetectDisconnect ==
    /\ pc = "detect_disconnect"
    /\ Disconnect
    /\ pc' = DetectFor(probe_index)
    /\ disconnects' = disconnects + 1
    /\ UNCHANGED <<app_exit, late_reads, connects, probe_index>>

\* The steps of main() of jlink_detect.py.
DetectStep ==
    \/ DetectDiscover
    \/ DetectConnect
    \/ DetectDisconnect

\* jlink_list.py lines 57 to 61: discover(), whose result is not looked at,
\* then main() returns.
ListStep ==
    /\ pc = "list_discover"
    /\ Discover
    /\ Len(last'.data.probes) <= MaxInfoProbes
    /\ pc' = MainAfter("done", "done")
    /\ UNCHANGED <<app_exit, late_reads, disconnects, connects, probe_index>>

\* Where main() of jlink_mcu_info.py, of jlink_info.py, of jlink_detect.py
\* and of jlink_list.py can be: the scripts that attach no signal handler.
DefaultPositions ==
    {"mcu_info_discover", "mcu_info_connect", "mcu_info_connect_to_mcu",
     "mcu_info_disconnect",
     "info_discover", "info_connect", "info_disconnect",
     "detect_discover", "detect_connect", "detect_disconnect",
     "list_discover"}

\* discover() cut short by a signal: the list was cleared and the loop has
\* been through the first probes of at most n enumerated, none of which
\* made decode() raise.
DiscoverCut(n) ==
    /\ \E probes \in SeqsUpTo(ProbeEntries, n) :
          LET r == DiscoverLoop(<<>>, probes)
          IN  /\ ~r.raised
              /\ detected_jlinks' = r.list
              /\ last' = Op("discover", "signal", <<"connected_emulators">>,
                            [raised |-> FALSE, probes |-> probes,
                             again  |-> FALSE])
    /\ UNCHANGED sdk_vars
    /\ UNCHANGED <<connected_jlink, connected_mcu,
                   connected_jlink_serial_number, disconnects>>

\* connect() cut short by a signal, which "except Exception" does not
\* catch. The signal came while open() had closed the handle and not yet
\* opened the probe; or when open() had returned and line 144 had not
\* stored the serial number; or later, after some of the reads of a live
\* probe were stored, the serial number possibly as the SDK gave it, before
\* lines 162 and 163 replace a -1.
ConnectCut(s, given) ==
    /\ \/ /\ SdkClosed
          /\ UNCHANGED <<connected_jlink, connected_jlink_serial_number>>
       \/ \E a \in OpenAnswers :
             /\ SdkOpened(s, a[1], a[2])
             /\ UNCHANGED <<connected_jlink, connected_jlink_serial_number>>
       \/ \E a \in OpenAnswers, k \in 0..ConnectReads, oem \in OemReads(s),
             replaced \in BOOLEAN :
             /\ k > 0 => a[1] /\ a[2]
             /\ ~replaced => k = 3
             /\ SdkOpened(s, a[1], a[2])
             /\ connected_jlink_serial_number' = <<given>>
             /\ connected_jlink' =
                   IF replaced
                       THEN JlinkAfter(connected_jlink, s, given, k, oem)
                       ELSE [JlinkAfter(connected_jlink, s, given, 2, oem)
                                EXCEPT !.serial_number =
                                           <<SdkSerialNumber(s)>>]
    /\ last' = Op("connect", "signal", <<"open">>, [serial |-> given])
    /\ UNCHANGED <<detected_jlinks, connected_mcu, disconnects>>

\* connect_to_mcu() cut short by a signal once set_tif had returned, on an
\* open handle then: the SDK connect is over, the target answers or not,
\* and some of the reads of a live target were stored.
McuCut(t) ==
    /\ sdk_opened
    /\ \E c \in BOOLEAN, k \in 0..McuReads :
          /\ c => sdk_connected
          /\ k > 0 => c
          /\ SdkTarget(t, c)
          /\ connected_mcu' = McuAfter(connected_mcu, t, k)
    /\ last' = Op("connect_to_mcu", "signal", <<"set_tif", "connect">>,
                  [target |-> t])
    /\ UNCHANGED <<detected_jlinks, connected_jlink,
                   connected_jlink_serial_number, disconnects>>

\* disconnect() cut short by a signal: close() had closed the handle or
\* not yet.
DisconnectCut ==
    /\ \/ SdkClosed
       \/ UNCHANGED sdk_vars
    /\ last' = Op("disconnect", "signal", <<"close">>, <<>>)
    /\ disconnects' = disconnects + 1
    /\ UNCHANGED <<detected_jlinks, connected_jlink, connected_mcu,
                   connected_jlink_serial_number>>

\* The call main() is at, cut short by a signal that came inside it.
SignalInside ==
    \/ /\ pc = "mcu_info_discover"
       /\ DiscoverCut(MaxMainProbes)
    \/ /\ pc \in {"info_discover", "detect_discover", "list_discover"}
       /\ DiscoverCut(MaxInfoProbes)
    \/ /\ pc = "mcu_info_connect"
       /\ \E s \in MainSerial : ConnectCut(s, s)
    \/ /\ pc = "info_connect"
       /\ probe_index < Len(detected_jlinks)
       /\ LET s == detected_jlinks[probe_index + 1].serial_number
          IN  ConnectCut(s, s)
    \/ /\ pc = "detect_connect"
       /\ probe_index < Len(detected_jlinks)
       /\ \E a \in DetectArguments : ConnectCut(a[1], a[2])
    \/ /\ pc = "mcu_info_connect_to_mcu"
       /\ \E t \in TheTarget : McuCut(t)
    \/ /\ pc \in {"mcu_info_disconnect", "info_disconnect",
                   "detect_disconnect"}
       /\ DisconnectCut

\* SIGINT, SIGTERM or SIGUSR1 in a script that attached no handler: SIGINT
\* raises KeyboardInterrupt out of main(), the other two end the process.
\* The signal comes between two calls of main() or inside one; the script
\* ends where it is and calls nothing more, disconnect() included.
SignalDefault ==
    /\ pc \in DefaultPositions
    /\ pc' = "aborted"
    /\ \/ /\ UNCHANGED sdk_vars
          /\ UNCHANGED <<detected_jlinks, connected_jlink, connected_mcu,
                         connected_jlink_serial_number, disconnects, last>>
       \/ SignalInside
    /\ UNCHANGED <<app_exit, late_reads, connects, probe_index,
                   last_percentage, readback_faults>>
    /\ UNCHANGED rtt_vars

\* One of the scripts at the start of its main(): jlink_rtt.py,
\* jlink_flash.py, jlink_mcu_info.py, jlink_info.py, jlink_detect.py or
\* jlink_list.py.
InitScripts ==
    \E start \in {"discover", "flash_discover", "mcu_info_discover",
                  "info_discover", "detect_discover", "list_discover"} :
        InitAt(start)

Format(n) ==
    IF n < 10 THEN <<48 + n>> ELSE Append(Format(n \div 10), 48 + (n % 10))

\* str[:k]
Slice(str, k) == SubSeq(str, 1, IF Len(str) < k THEN Len(str) ELSE k)

\* The microsecond values of the clock: both ends of the range, and values
\* of every number of digits.
Microseconds == {0, 7, 45, 999, 1000, 5000, 99999, 100000, 123456, 999999}

\* What datetime.utcnow() returns.
ClockValues ==
    [year : {2024}, month : {1, 12}, day : {2, 31}, hour : {3, 23},
     minute : {4, 59}, second : {5, 58}, microsecond : Microseconds]

\* Lines 470 to 472: "[{}-{}-{} {}:{}:{}.{}]" filled with the fields of
\* tobj, the last one with the first three characters of the microsecond.
get_timestamp_at(tobj) ==
    <<91>> \o Format(tobj.year) \o <<45>> \o Format(tobj.month)
           \o <<45>> \o Format(tobj.day) \o <<32>> \o Format(tobj.hour)
           \o <<58>> \o Format(tobj.minute) \o <<58>> \o Format(tobj.second)
           \o <<46>> \o Slice(Format(tobj.microsecond), 3) \o <<93>>

\* get_timestamp() while the clock shows tobj, or while reading the clock
\* raises: that is caught and logged, and "" is returned.
GetTimestamp ==
    /\ \/ \E tobj \in ClockValues :
             last' = Op("get_timestamp", "ok", <<"utcnow">>,
                        [tobj |-> tobj,
                         timestamp |-> get_timestamp_at(tobj)])
       \/ last' = Op("get_timestamp", "ok", <<"utcnow">>,
                     [timestamp |-> <<>>])
    /\ UNCHANGED sdk_vars
    /\ UNCHANGED <<detected_jlinks, connected_jlink, connected_mcu,
                   connected_jlink_serial_number, last_percentage,
                   readback_faults>>
    /\ UNCHANGED rtt_vars

-----------------------------------------------------------------------------
(* Specifications.                                                         *)

\* The connection life cycle under any caller, with reads that raise.
Next ==
    \/ Connect(Serials) /\ UNCHANGED main_vars
    \/ ConnectReadFault(Serials) /\ UNCHANGED main_vars
    \/ ConnectToMcu(Targets, InterfaceArgs) /\ UNCHANGED main_vars
    \/ ConnectToMcuReadFault(Targets, InterfaceArgs) /\ UNCHANGED main_vars
    \/ Disconnect /\ UNCHANGED main_vars
    \/ SdkUnplug
    \/ SdkTargetLost

Spec == Init /\ [][Next]_vars

\* The connection life cycle of one probe under any caller that asks the
\* liveness queries whenever it likes; every read returns.
NextLife ==
    \/ Connect(TheSerial) /\ UNCHANGED main_vars
    \/ ConnectToMcu(Targets, InterfaceArgs) /\ UNCHANGED main_vars
    \/ Disconnect /\ UNCHANGED main_vars
    \/ IsConnected /\ UNCHANGED main_vars
    \/ IsMcuConnected /\ UNCHANGED main_vars
    \/ IsJlinkMcuConnected /\ UNCHANGED main_vars
    \/ SdkUnplug
    \/ SdkTargetLost

SpecLife == Init /\ [][NextLife]_vars

\* Discovery under any enumeration result.
NextDiscover == Discover /\ UNCHANGED main_vars

SpecDiscover == Init /\ [][NextDiscover]_vars

\* The read faults of the life cycle are left out of the next two
\* specifications: they change the snapshots only.
\* Firmware transfer under any caller.
NextXfer ==
    \/ Connect(TheSerial) /\ UNCHANGED main_vars
    \/ ConnectToMcu(TheTarget, TheInterface) /\ UNCHANGED main_vars
    \/ Disconnect /\ UNCHANGED main_vars
    \/ SdkUnplug
    \/ SdkTargetLost
    \/ FwFlashFile /\ UNCHANGED main_vars
    \/ FwDumpFile /\ UNCHANGED main_vars
    \/ RttWrite /\ UNCHANGED main_vars

SpecXfer == Init /\ [][NextXfer]_vars

\* RTT under any caller, while the clock can be read.
NextRtt ==
    \/ Connect(TheSerial) /\ UNCHANGED main_vars
    \/ ConnectToMcu(TheTarget, TheInterface) /\ UNCHANGED main_vars
    \/ Disconnect /\ UNCHANGED main_vars
    \/ SdkUnplug
    \/ SdkTargetLost
    \/ RttStart /\ UNCHANGED main_vars
    \/ RttRead /\ ClockRuns' /\ UNCHANGED main_vars

SpecRtt == Init /\ [][NextRtt]_vars

\* The calls of fw_flash_on_progress by one flash_file in progress.
NextProgress == FwFlashOnProgress /\ UNCHANGED main_vars

SpecProgress == Init /\ [][NextProgress]_vars

\* jlink_interface_from_string under any argument.
NextInterface == InterfaceFromString /\ UNCHANGED main_vars

SpecInterface == Init /\ [][NextInterface]_vars

\* jlink_rtt.py from its start: main() runs on while the process lives, a
\* termination signal may come at any time or never, and the clock can be
\* read.
NextMain ==
    \/ MainStep /\ ClockRuns'
    \/ SignalHandler
    \/ SdkUnplug
    \/ SdkTargetLost

SpecMain == Init /\ [][NextMain]_vars /\ WF_vars(MainStep)

\* Flashes of a few files under either outcome of the unlock call.
NextUnlock ==
    \/ Connect(TheSerial) /\ UNCHANGED main_vars
    \/ ConnectToMcu(TheTarget, TheInterface) /\ UNCHANGED main_vars
    \/ Disconnect /\ UNCHANGED main_vars
    \/ SdkTargetLost
    \/ FwFlashFileOn(UnlockFiles, UnlockReports, UnlockReads)
           /\ UNCHANGED main_vars

SpecUnlock == Init /\ [][NextUnlock]_vars

\* RTT on a connected target when every rtt_start is given the path of a
\* log file that can be opened; reading the clock may raise.
NextLog ==
    \/ Connect(TheSerial) /\ UNCHANGED main_vars
    \/ ConnectToMcu(TheTarget, TheInterface) /\ UNCHANGED main_vars
    \/ RttStartWith({"ok"}, MaxLogHandlers) /\ UNCHANGED main_vars
    \/ RttRead /\ UNCHANGED main_vars

SpecLog == Init /\ [][NextLog]_vars

\* The progress reports of one flash after the other on one controller
\* that was connected to its target before the first of them.
NextFlashes ==
    \/ /\ ProgressRun.starts = {}
       /\ Connect(TheSerial)
       /\ UNCHANGED main_vars
    \/ /\ ProgressRun.starts = {}
       /\ ConnectToMcu(TheTarget, TheInterface)
       /\ UNCHANGED main_vars
    \/ FwFlashFileStarts /\ UNCHANGED main_vars
    \/ /\ ProgressRun.starts # {}
       /\ FwFlashOnProgress
       /\ Len(last'.data.reported) <= MaxFlashReports
       /\ UNCHANGED main_vars

SpecFlashes == Init /\ [][NextFlashes]_vars

\* The six scripts, each from its start, with a termination signal at any
\* time or never; reading the clock may raise.
NextScripts ==
    \/ MainStep
    \/ FlashStep
    \/ McuInfoStep
    \/ InfoStep
    \/ DetectStep
    \/ ListStep
    \/ SignalHandler
    \/ SignalDefault
    \/ SdkUnplug
    \/ SdkTargetLost

SpecScripts == InitScripts /\ [][NextScripts]_vars

\* get_timestamp under any clock value.
NextClock == GetTimestamp /\ UNCHANGED main_vars

SpecClock == Init /\ [][NextClock]_vars

-----------------------------------------------------------------------------
(* Properties.                                                             *)

\* C1: fw_flash_file returns True only if the bytes read back have the
\* length of the file's bytes and the same value at every position, and it
\* returns False for every read-back that differs in length or in a byte.
C1_FlashVerifiesReadBack ==
    last.op = "fw_flash_file" =>
        LET F == last.data.file
            R == last.data.read
            same == /\ Len(R) = Len(F)
                    /\ \A i \in 1..Len(F) : R[i] = F[i]
        IN  /\ last.res = "ok" => (F # Raised /\ R # Raised /\ same)
            /\ (F # Raised /\ R # Raised /\ ~same) => last.res = "fail"

\* C1: the SDK programmed without error and the read-back has the right
\* length but another byte.
C1_Witness ==
    /\ last.op = "fw_flash_file"
    /\ last.calls = <<"open_rb", "unlock", "flash_file", "memory_read">>
    /\ last.data.read # Raised
    /\ Len(last.data.read) = Len(last.data.file)
    /\ last.data.read # last.data.file
    /\ last.res = "fail"

\* C2: connect_to_mcu called while Disconnected returns False and the
\* controller is not TargetConnected afterwards.
C2_ConnectToMcuGuard ==
    (last.op = "connect_to_mcu" /\ last.pre = "Disconnected") =>
        (last.res = "fail" /\ State # "TargetConnected")

\* C3: after connect() returned False the controller is Disconnected and the
\* SDK handle is not open.
C3_ConnectFailureReleasesHandle ==
    (last.op = "connect" /\ last.res = "fail") =>
        (State = "Disconnected" /\ ~sdk_opened)

\* C4: after disconnect() returned, is_connected() and
\* is_jlink_mcu_connected() are false, and a close that raised is reported.
C4_DisconnectedAfterDisconnect ==
    last.op = "disconnect" =>
        /\ ~is_connected
        /\ ~is_jlink_mcu_connected
        /\ last.res \in {"ok", "fail"}

\* C5: the target connection is live only if the probe connection is, and
\* after disconnect() the snapshot of the target is cleared or the ready
\* state that presents it as valid is false.
C5_SnapshotInvalidAfterDisconnect ==
    /\ is_mcu_connected => is_connected
    /\ last.op = "disconnect" =>
          (connected_mcu = ConnectedMCU \/ ~is_jlink_mcu_connected)

\* The bytes of bs that are not carriage returns.
WithoutCR(bs) == SelectSeq(bs, LAMBDA b : b # CR)

RECURSIVE LinesOf(_)
\* The segments of bs that a line feed ends, carriage returns removed.
LinesOf(bs) ==
    IF \A i \in 1..Len(bs) : bs[i] # LF THEN <<>>
    ELSE LET n == CHOOSE i \in 1..Len(bs) :
                    /\ bs[i] = LF
                    /\ \A j \in 1..(i - 1) : bs[j] # LF
         IN  <<WithoutCR(SubSeq(bs, 1, n - 1))>>
                \o LinesOf(SubSeq(bs, n + 1, Len(bs)))

\* C6: the lines logged since rtt_start are the segments of the bytes fed
\* that a line feed ends, carriage returns removed, in order, one per line
\* feed, and the accumulator is empty right after a line feed was read.
C6_RttLinesAreSegments ==
    /\ Len(emitted) = Len(LinesOf(fed))
    /\ \A i \in 1..Len(emitted) : emitted[i].text = LinesOf(fed)[i]
    /\ Len(emitted) = Cardinality({i \in 1..Len(fed) : fed[i] = LF})
    /\ (last.op = "rtt_read" /\ last.data = <<LF>>) => rtt_read_line = <<>>

\* C6: "a" LF "b" LF was fed and logged as the lines "a" and "b".
C6_Witness ==
    /\ fed = <<97, LF, 98, LF>>
    /\ Len(emitted) = 2
    /\ emitted[1].text = <<97>>
    /\ emitted[2].text = <<98>>
    /\ rtt_read_line = <<>>

\* C7: the accumulator holds no carriage return and no line feed.
C7_AccumulatorHasNoCRLF ==
    \A i \in 1..Len(rtt_read_line) :
        rtt_read_line[i] # CR /\ rtt_read_line[i] # LF

\* C7: a carriage return and a line feed were read and the accumulator
\* holds what came after them.
C7_Witness ==
    /\ \E i \in 1..Len(fed) : fed[i] = CR
    /\ \E i \in 1..Len(fed) : fed[i] = LF
    /\ rtt_read_line # <<>>

\* C8: no two entries of the discovered list have the same product name
\* and the same serial number.
C8_NoDuplicateProbes ==
    \A i, j \in 1..Len(detected_jlinks) :
        (i # j) =>
            ~(/\ detected_jlinks[i].product_name
                    = detected_jlinks[j].product_name
              /\ detected_jlinks[i].serial_number
                    = detected_jlinks[j].serial_number)

\* C8: the SDK listed a probe twice and the list holds two probes.
C8_Witness ==
    /\ last.op = "discover"
    /\ \E i, j \in 1..Len(last.data.probes) :
          i # j /\ last.data.probes[i] = last.data.probes[j]
    /\ Len(detected_jlinks) = 2

\* C9: an enumeration that returns no probe makes discover succeed with an
\* empty list, and discover fails only when the enumeration raised.
C9_EmptyEnumerationSucceeds ==
    last.op = "discover" =>
        /\ (~last.data.raised /\ last.data.probes = <<>>) =>
              (last.res = "ok" /\ detected_jlinks = <<>>)
        /\ last.res = "fail" => last.data.raised

\* C10: when memory_read returns another number of bytes than asked,
\* fw_dump_file returns False and does not open or write the file.
C10_DumpLengthMismatchWritesNothing ==
    (/\ last.op = "fw_dump_file"
     /\ last.data.read # Raised
     /\ Len(last.data.read) # last.data.length[1]) =>
        /\ last.res = "fail"
        /\ \A i \in 1..Len(last.calls) :
              last.calls[i] # "open_wb" /\ last.calls[i] # "write"

\* C10: fewer bytes than asked came back.
C10_Witness ==
    /\ last.op = "fw_dump_file"
    /\ last.data.read # Raised
    /\ Len(last.data.read) < last.data.length[1]
    /\ last.res = "fail"

\* C11: the calls of fw_flash_on_progress that log are exactly those handed
\* a percentage that differs from the one handed just before (0, the value
\* the controller starts with, before the first), in order, and each logs
\* the percentage it was handed.
C11_ProgressLoggedOnChange ==
    last.op = "fw_flash_on_progress" =>
        LET R == last.data.reported
            L == last.data.logged
            Before(i) == IF i = 1 THEN 0 ELSE R[i - 1]
            Changed == {i \in 1..Len(R) : R[i] # Before(i)}
        IN  /\ Len(L) = Cardinality(Changed)
            /\ \A k \in 1..Len(L) :
                  /\ L[k].at \in Changed
                  /\ 2 * L[k].percentage = R[L[k].at]
            /\ \A k \in 1..(Len(L) - 1) : L[k].at < L[k + 1].at

\* C11: 10, 10, 11, 11, 11, 100 were handed and 10, 11, 100 were logged.
C11_Witness ==
    /\ last.op = "fw_flash_on_progress"
    /\ last.data.reported = <<20, 20, 22, 22, 22, 200>>
    /\ last.data.logged = <<[at |-> 1, percentage |-> 10],
                            [at |-> 3, percentage |-> 11],
                            [at |-> 6, percentage |-> 100]>>

\* C12: no operation of the controller lets an exception of the SDK leave
\* it: every operation ends with a True or False result.
C12_NoFaultPropagates == last.res \in {"ok", "fail"}

\* What is left of bs after its last line feed, carriage returns removed.
PendingOf(bs) ==
    IF \A i \in 1..Len(bs) : bs[i] # LF THEN WithoutCR(bs)
    ELSE LET n == CHOOSE i \in 1..Len(bs) :
                    /\ bs[i] = LF
                    /\ \A j \in (i + 1)..Len(bs) : bs[j] # LF
         IN  WithoutCR(SubSeq(bs, n + 1, Len(bs)))

\* C13: an rtt_read of the polling loop whose SDK read raises returns False,
\* leaves the accumulator and the lines logged as they are and hands the
\* loop back to its test with the flag untouched; the accumulator always
\* holds every byte read since the last line feed, whatever failed between.
C13_ReadFaultKeepsLine ==
    /\ [][(last'.op = "rtt_read" /\ last'.data = Raised /\ MainRttRead) =>
            /\ last'.res = "fail"
            /\ rtt_read_line' = rtt_read_line
            /\ emitted' = emitted
            /\ pc' = "while"
            /\ app_exit' = app_exit]_vars
    /\ [](rtt_read_line = PendingOf(fed))

\* C13: a read raised after "a" was gathered, the loop went on, and the "a"
\* read next joined the same line.
C13_Witness ==
    /\ last.op = "rtt_read"
    /\ last.data = <<97>>
    /\ rtt_read_line = <<97, 97>>
    /\ "fault" \in line_breaks
    /\ pc = "while"

\* C14: an rtt_read of the loop starts only from the test of a flag that is
\* not set; once the flag is set at most one rtt_read is made, disconnect()
\* is called at most once, and main() gets to call it once and return.
C14_LoopStopsOnFlag ==
    /\ [][(pc' = "rtt_read" /\ pc # "rtt_read") =>
            (pc = "while" /\ ~app_exit)]_vars
    /\ [](late_reads <= 1 /\ disconnects <= 1)
    /\ (app_exit /\ pc \in {"while", "rtt_read"})
            ~> (pc = "done" /\ disconnects = 1)

\* C14: the signal came during an rtt_read; that one completed, and main()
\* disconnected and returned.
C14_Witness ==
    /\ pc = "done"
    /\ app_exit
    /\ late_reads = 1
    /\ disconnects = 1
    /\ last.op = "disconnect"

\* C15: a connect_to_mcu that fails from ProbeConnected, its SDK connect
\* raising or the target not live after it, leaves the probe connected and
\* both snapshots as they were.
C15_FailedMcuConnectKeepsProbe ==
    [][(/\ last'.op = "connect_to_mcu"
        /\ last'.res = "fail"
        /\ last'.pre = "ProbeConnected"
        /\ ConnectToMcu(Targets, InterfaceArgs)) =>
            /\ sdk_opened' /\ sdk_connected'
            /\ connected_jlink' = connected_jlink
            /\ connected_mcu' = connected_mcu]_vars

\* C15: connect_to_mcu succeeded right after it had failed on the same
\* connected probe.
C15_Witness ==
    /\ last.op = "connect_to_mcu"
    /\ last.res = "ok"
    /\ last.data.retry
    /\ State = "TargetConnected"

\* C16: fw_flash_file, fw_dump_file and rtt_write called while the ready
\* state does not hold return False and call neither the SDK nor a file.
C16_NotReadyDoesNothing ==
    (/\ last.op \in {"fw_flash_file", "fw_dump_file", "rtt_write"}
     /\ last.pre # "TargetConnected") =>
        (last.res = "fail" /\ last.calls = <<>>)

\* C16: rtt_write was refused on a probe whose target had been connected
\* and was lost.
C16_Witness ==
    /\ last.op = "rtt_write"
    /\ last.pre = "ProbeConnected"
    /\ connected_mcu # ConnectedMCU
    /\ last.res = "fail"
    /\ last.calls = <<>>

RECURSIVE TextOf(_)
\* The texts of the lines es, one after the other.
TextOf(es) == IF es = <<>> THEN <<>> ELSE Head(es).text \o TextOf(Tail(es))

\* C17: an rtt_read made while the ready state does not hold returns False,
\* does not call the SDK, logs nothing and leaves the accumulator as it is;
\* the lines logged and the accumulator together always hold every
\* character read, so nothing is lost over such a call.
C17_NotReadyReadKeepsLine ==
    /\ [][(last'.op = "rtt_read" /\ ~is_jlink_mcu_connected /\ RttRead) =>
            /\ last'.res = "fail"
            /\ last'.calls = <<>>
            /\ emitted' = emitted
            /\ rtt_read_line' = rtt_read_line]_vars
    /\ [](TextOf(emitted) \o rtt_read_line
            = SelectSeq(fed, LAMBDA b : b # CR /\ b # LF))

\* C17: rtt_read was called while not ready after "a" was gathered, and the
\* "b" read once ready again joined the same line.
C17_Witness ==
    /\ last.op = "rtt_read"
    /\ last.data = <<98>>
    /\ rtt_read_line = <<97, 98>>
    /\ "notready" \in line_breaks

\* C18: each query answers what the SDK handle says at the call,
\* is_jlink_mcu_connected that of both, and changes neither the handle nor
\* a field of the controller.
C18_QueriesAskTheHandle ==
    [][/\ (last'.op = "is_connected" /\ IsConnected) =>
            (last'.res = "ok") = (sdk_opened /\ sdk_connected)
       /\ (last'.op = "is_mcu_connected" /\ IsMcuConnected) =>
            (last'.res = "ok") = sdk_target
       /\ (last'.op = "is_jlink_mcu_connected" /\ IsJlinkMcuConnected) =>
            (last'.res = "ok") = (sdk_opened /\ sdk_connected /\ sdk_target)
       /\ (IsConnected \/ IsMcuConnected \/ IsJlinkMcuConnected) =>
            /\ UNCHANGED sdk_vars
            /\ UNCHANGED <<detected_jlinks, connected_jlink, connected_mcu,
                           connected_jlink_serial_number, rtt_read_line,
                           last_percentage>>]_vars

\* C18: is_jlink_mcu_connected answered True, the target or the probe went
\* away, and the next call, with no operation in between, answered False.
C18_Witness ==
    /\ last.op = "is_jlink_mcu_connected"
    /\ last.data.before = <<"ok">>
    /\ last.res = "fail"

\* The transport of each name.
TransportNamed(name) ==
    CASE name = <<115, 119, 100>>      -> "SWD"
      [] name = <<106, 116, 97, 103>>  -> "JTAG"
      [] name = <<105, 99, 115, 112>>  -> "ICSP"
      [] name = <<115, 112, 105>>      -> "SPI"
      [] name = <<102, 105, 110, 101>> -> "FINE"
      [] name = <<99, 50>>             -> "C2"

\* C19: jlink_interface_from_string returns for every argument; a casing of
\* a name gives the transport of that name without a warning, every other
\* argument, the empty string and None among them, gives SWD with a warning.
C19_InterfaceResolution ==
    last.op = "jlink_interface_from_string" =>
        LET i == last.data.interface
        IN  /\ last.res = "ok"
            /\ \A name \in InterfaceNames :
                  i \in Casings(name) =>
                      /\ last.data.tif = TransportNamed(name)
                      /\ ~last.data.warned
            /\ (\A name \in InterfaceNames : i \notin Casings(name)) =>
                  (last.data.tif = "SWD" /\ last.data.warned)

\* C19: "JtAg" gave JTAG without a warning.
C19_Witness ==
    /\ last.op = "jlink_interface_from_string"
    /\ last.data.interface = <<74, 116, 65, 103>>
    /\ last.data.tif = "JTAG"
    /\ ~last.data.warned

\* C20: a discover that gets from the SDK what the discover just before it
\* got leaves the same list, in the same order and without a duplicate, and
\* has the same result.
C20_DiscoverTwiceSame ==
    [][(last'.op = "discover" /\ last'.data.again /\ Discover) =>
            /\ detected_jlinks' = detected_jlinks
            /\ last'.res = last.res
            /\ \A i, j \in 1..Len(detected_jlinks') :
                  i # j => detected_jlinks'[i] # detected_jlinks'[j]]_vars

\* C20: discover ran twice on the same three entries, one probe listed
\* twice among them, and the list holds the two probes.
C20_Witness ==
    /\ last.op = "discover"
    /\ last.data.again
    /\ last.res = "ok"
    /\ Len(last.data.probes) = 3
    /\ Len(detected_jlinks) = 2


\* The numbers written in str, in the order they are written: acc holds the
\* numbers read so far and cur the one being read (-1 between numbers).
RECURSIVE NumbersIn(_, _, _)
NumbersIn(str, acc, cur) ==
    IF str = <<>>
        THEN IF cur >= 0 THEN Append(acc, cur) ELSE acc
        ELSE IF Head(str) \in 48..57
            THEN NumbersIn(Tail(str), acc,
                           (IF cur < 0 THEN 0 ELSE cur) * 10 + Head(str) - 48)
            ELSE NumbersIn(Tail(str),
                           IF cur >= 0 THEN Append(acc, cur) ELSE acc, -1)

\* C21: the numbers of the timestamp are, in this order, the year, month,
\* day, hour, minute and second of the clock and its millisecond, which is
\* floor(microsecond / 1000), whatever the zero padding.
C21_TimestampMilliseconds ==
    (last.op = "get_timestamp" /\ last.data.timestamp # <<>>) =>
        LET tobj == last.data.tobj
        IN  NumbersIn(last.data.timestamp, <<>>, -1) =
                <<tobj.year, tobj.month, tobj.day, tobj.hour, tobj.minute,
                  tobj.second, tobj.microsecond \div 1000>>

\* C22: fw_flash_file called in the ready state on a file that cannot be
\* read returns False and has called nothing but the open of the file: no
\* unlock, no flash_file, no memory_read, and no progress was reported.
C22_UnreadableFileTouchesNothing ==
    [][(/\ last'.op = "fw_flash_file"
        /\ last'.pre = "TargetConnected"
        /\ last'.data.file = Raised
        /\ FwFlashFile) =>
            /\ last'.res = "fail"
            /\ \A i \in 1..Len(last'.calls) :
                  last'.calls[i] \notin {"unlock", "flash_file", "memory_read"}
            /\ last'.data.unlock = "none"
            /\ last_percentage' = last_percentage]_vars

\* C22: a flash of an unreadable file was refused in the ready state.
C22_Witness ==
    /\ last.op = "fw_flash_file"
    /\ last.pre = "TargetConnected"
    /\ last.data.file = Raised
    /\ last.calls = <<"open_rb">>
    /\ last.res = "fail"

\* The text a sequence of UTF-8 bytes stands for, for code points below
\* 2048; <<-1>> marks bytes that are not UTF-8.
RECURSIVE Utf8Decode(_)
Utf8Decode(bs) ==
    IF bs = <<>> THEN <<>>
    ELSE IF bs[1] < 128 THEN <<bs[1]>> \o Utf8Decode(Tail(bs))
    ELSE IF bs[1] \in 192..223 /\ Len(bs) >= 2 /\ bs[2] \in 128..191
        THEN <<(bs[1] - 192) * 64 + (bs[2] - 128)>>
                 \o Utf8Decode(Tail(Tail(bs)))
    ELSE <<-1>>

\* C23: rtt_write returns True exactly when the ready state held and the
\* SDK reported the whole number of bytes handed to it, and what it hands
\* to the SDK is the UTF-8 text followed by the bytes 10 and 0.
C23_RttWriteFraming ==
    last.op = "rtt_write" =>
        LET handed == last.data.data
            n      == Len(handed)
        IN  /\ last.res = "ok" <=>
                  (/\ last.pre = "TargetConnected"
                   /\ last.calls = <<"rtt_write">>
                   /\ last.data.written = <<n>>)
            /\ last.calls # <<>> =>
                  /\ n >= 2
                  /\ SubSeq(handed, n - 1, n) = <<10, 0>>
                  /\ \A i \in 1..n : handed[i] \in 0..255
                  /\ Utf8Decode(SubSeq(handed, 1, n - 2)) = last.data.text

\* C23: the SDK wrote one byte less than the frame of a two-byte character,
\* and rtt_write returned False.
C23_Witness ==
    /\ last.op = "rtt_write"
    /\ last.pre = "TargetConnected"
    /\ last.data.text = <<233>>
    /\ last.data.data = <<195, 169, 10, 0>>
    /\ last.data.written = <<3>>
    /\ last.res = "fail"

\* The other outcome of the unlock call.
OtherUnlock(u) == IF u = "ok" THEN "raise" ELSE "ok"

\* C24: whenever fw_flash_file ran past the unlock call, the run that
\* differs only in the outcome of that call (same file, same progress
\* reports, same outcome of flash_file, same read-back) issues the same
\* calls, returns the same result and leaves the same last percentage.
C24_UnlockOutcomeIgnored ==
    [][(/\ last'.op = "fw_flash_file"
        /\ last'.calls # <<>>
        /\ last'.data.unlock # "none") =>
            \A fw \in {last'.data.file}, u \in {last'.data.unlock},
               rb \in {last'.data.read}, res \in {last'.res},
               calls \in {last'.calls}, lp \in {last_percentage'},
               hs \in UnlockReports :
                /\ FlashFlashRaises(fw, u, hs) =>
                      ENABLED (/\ FlashFlashRaises(fw, OtherUnlock(u), hs)
                               /\ XferFrame /\ UNCHANGED main_vars
                               /\ last'.res = res
                               /\ last'.calls = calls
                               /\ last_percentage' = lp)
                /\ FlashReadRaises(fw, u, hs) =>
                      ENABLED (/\ FlashReadRaises(fw, OtherUnlock(u), hs)
                               /\ XferFrame /\ UNCHANGED main_vars
                               /\ last'.res = res
                               /\ last'.calls = calls
                               /\ last_percentage' = lp)
                /\ FlashReadBack(fw, u, hs, rb) =>
                      ENABLED (/\ FlashReadBack(fw, OtherUnlock(u), hs, rb)
                               /\ XferFrame /\ UNCHANGED main_vars
                               /\ last'.res = res
                               /\ last'.calls = calls
                               /\ last_percentage' = lp)]_vars

\* C24: a flash whose unlock call raised was verified and returned True.
C24_Witness ==
    /\ last.op = "fw_flash_file"
    /\ last.data.unlock = "raise"
    /\ last.calls = <<"open_rb", "unlock", "flash_file", "memory_read">>
    /\ last.data.file # <<>>
    /\ last.res = "ok"

\* C25: when every rtt_start was given the log file, each line logged
\* since the last of them was written to the log file exactly once.
C25_LogFileOneLinePerFlush ==
    file_handlers >= 1 =>
        \A i \in 1..Len(emitted) : emitted[i].copies = 1

\* C26: rtt_start always asks the SDK to start RTT, whatever became of the
\* log file, and it returns True exactly when that call returned. When the
\* call raised, rtt_start returns False, the call that raised is the only
\* one it made of the SDK, so that nothing was started, and the controller
\* is left as before a session, with an empty accumulator and no line
\* logged.
C26_RttStartDecidedBySdk ==
    [][(last'.op = "rtt_start" /\ MainRttStart) =>
            /\ last'.calls = <<"rtt_start">>
            /\ last'.res = "ok" <=> last'.data.sdk = "ok"
            /\ last'.data.sdk = "raise" =>
                  /\ last'.res = "fail"
                  /\ rtt_read_line' = <<>>
                  /\ emitted' = <<>>
                  /\ UNCHANGED sdk_vars]_vars

\* C26: the log file could not be attached and the SDK call raised:
\* rtt_start called the SDK all the same and returned False.
C26_Witness ==
    /\ last.op = "rtt_start"
    /\ last.data.attach = "raise"
    /\ last.data.sdk = "raise"
    /\ last.calls = <<"rtt_start">>
    /\ last.res = "fail"
    /\ rtt_read_line = <<>>

\* C27: while the ready state holds, every field of connected_mcu holds
\* the value connect_to_mcu reads from the target the SDK is connected to,
\* the flash size that fw_dump_file takes as its default length among them.
C27_SnapshotOfConnectedTarget ==
    is_jlink_mcu_connected =>
        /\ \A f \in DOMAIN connected_mcu :
              connected_mcu[f] = McuFieldValue(sdk_device, f)
        /\ DumpLength(NoLength) = <<SdkFlashSize(sdk_device)>>

\* C28: after a discover whose enumeration raised, the result is False,
\* the list is empty whatever it held before, and is_any_jlink() is false.
C28_FailedEnumerationEmptiesList ==
    (last.op = "discover" /\ last.data.raised) =>
        /\ last.res = "fail"
        /\ detected_jlinks = <<>>
        /\ ~is_any_jlink

\* C28: the enumeration raised in a discover called while the list held
\* the probes of an earlier discovery.
C28_Witness ==
    /\ last.op = "discover"
    /\ last.data.raised
    /\ last.data.before > 0
    /\ last.res = "fail"
    /\ detected_jlinks = <<>>

\* C29: the last percentage is 0 on a fresh controller and no start of a
\* fw_flash_file changes it: over all the flashes of a controller, the
\* reports that are not logged are exactly those whose rounded percentage
\* is that of the report just before, be it of the same flash or the last
\* of the flash before, or is 0 for the very first report.
C29_SuppressedAcrossFlashes ==
    last.op \in {"fw_flash_on_progress", "fw_flash_file_starts"} =>
        LET R == last.data.reported
            L == last.data.logged
            Before(i) == IF i = 1 THEN 0 ELSE PyRound(R[i - 1])
            Suppressed == {i \in 1..Len(R) : PyRound(R[i]) = Before(i)}
        IN  /\ {L[k].at : k \in 1..Len(L)} = (1..Len(R)) \ Suppressed
            /\ Len(L) = Len(R) - Cardinality(Suppressed)
            /\ \A k \in 1..Len(L) : L[k].percentage = PyRound(R[L[k].at])
            /\ last_percentage = Before(Len(R) + 1)

\* C29: the first flash of a fresh controller reported 0 and 100 percent,
\* the second one 100 percent, and only the first 100 percent was logged.
C29_Witness ==
    /\ last.op = "fw_flash_on_progress"
    /\ last.data.reported = <<0, 200, 200>>
    /\ last.data.starts = {1, 3}
    /\ last.data.logged = <<[at |-> 2, percentage |-> 100]>>

\* Where a main() is about to call connect().
ConnectPositions ==
    {"connect", "flash_connect", "mcu_info_connect", "info_connect",
     "detect_connect"}

\* C30: in the four scripts a connection that connect() made is closed by
\* one disconnect() call: never is more than one connection awaiting its
\* disconnect(), none is when connect() is called for another probe, and
\* none is when main() has returned, after a target connection or a flash
\* that failed too.
C30_OneDisconnectPerConnect ==
    /\ connects - disconnects \in {0, 1}
    /\ pc \in ConnectPositions => connects = disconnects
    /\ pc = "done" => connects = disconnects

\* C30: a script with a for loop over the probes (jlink_info.py,
\* jlink_detect.py) connected to two probes one after the other and
\* returned after it disconnected from each.
C30_Witness ==
    /\ pc = "done"
    /\ probe_index = 2
    /\ connects = 2
    /\ disconnects = 2

=============================================================================
